---- MODULE Spec2Model ----
(***************************************************************************)
(* chd2iso-fuse: a read-only FUSE view of a directory of CHD archives.     *)
(* The model follows src/src/main.rs: the track-line parser, the geometry  *)
(* classifier, the index, the frame cache and the filesystem callbacks.    *)
(*                                                                         *)
(* Text (file names, metadata blobs) is a sequence of ASCII codes, a byte  *)
(* buffer is a sequence of numbers 0..255.                                 *)
(***************************************************************************)
EXTENDS Integers, Sequences, FiniteSets, TLC

VARIABLES
    args,                \* FsState.args: cache_hunks, cache_bytes, cd_allow_form2
    source_dir,          \* the files of args.source_dir, in read_dir order
    gone,                \* paths that can no longer be opened (removed after startup)
    mounted,             \* FALSE until build_index has run
    crashed,             \* TRUE once a callback panicked
    entries,             \* FsState.entries
    handles,             \* FsState.handles: fh -> Handle
    next_fh,             \* FsState.next_fh
    frame_cache,         \* FsState.frame_cache, least recently used first
    approx_cache_bytes,  \* FsState.approx_cache_bytes
    reply,               \* the reply of the last callback
    listing,             \* what a client enumerating the root has collected
    pinned,              \* one earlier read reply, kept for comparison
    split,               \* a client reading one range whole and then in two parts
    track_line,          \* the text of a track descriptor handed to parse_track_line
    track_info           \* what parse_track_line returned for it

vars == <<args, source_dir, gone, mounted, crashed, entries, handles, next_fh,
          frame_cache, approx_cache_bytes, reply, listing, pinned, split, track_line,
          track_info>>

(***************************************************************************)
(* Program constants                                                       *)
(***************************************************************************)
CD_FRAME_2352 == 2352

DefaultCacheCap == 64

ScanLimit == 2000

ROOT_INO == 1

FIRST_FILE_INO == 2

(***************************************************************************)
(* Bounds of the model                                                     *)
(***************************************************************************)
MaxFh == 2

MaxCap == 3

MaxCounted == 4

(***************************************************************************)
(* Generic helpers                                                         *)
(***************************************************************************)
Min(a, b) == IF a <= b THEN a ELSE b

Max(a, b) == IF a >= b THEN a ELSE b

Range(s) == {s[i] : i \in DOMAIN s}

\* a function on 1..n as a tuple
Tuple(fn) == SubSeq(fn, 1, Len(fn))

\* s without its first n elements
Drop(s, n) == SubSeq(s, n + 1, Len(s))

\* the first n elements of s
Take(s, n) == SubSeq(s, 1, n)

StartsWith(s, p) == Len(s) >= Len(p) /\ Take(s, Len(p)) = p

Contains(s, p) ==
    \E i \in 0..(Len(s) - Len(p)) : SubSeq(s, i + 1, i + Len(p)) = p

\* char::to_lowercase on ASCII text
ToLower(s) == [i \in DOMAIN s |-> IF s[i] >= 65 /\ s[i] <= 90 THEN s[i] + 32 ELSE s[i]]

\* Ord::cmp on strings: byte-wise lexicographic, a proper prefix is smaller
RECURSIVE StrLess(_, _)
StrLess(a, b) ==
    IF b = <<>> THEN FALSE
    ELSE IF a = <<>> THEN TRUE
    ELSE IF a[1] # b[1] THEN a[1] < b[1]
    ELSE StrLess(Tail(a), Tail(b))

(***************************************************************************)
(* Text literals of the program (ASCII codes)                              *)
(***************************************************************************)
S_chd == <<99, 104, 100>>                                  \* "chd"

S_dot_iso == <<46, 105, 115, 111>>                         \* ".iso"

S_form2_bin == <<32, 40, 70, 111, 114, 109, 50, 41, 46, 98, 105, 110>>  \* " (Form2).bin"

K_TRACK == <<84, 82, 65, 67, 75>>                          \* "TRACK"

K_FRAMES == <<70, 82, 65, 77, 69, 83>>                     \* "FRAMES"

K_PREGAP == <<80, 82, 69, 71, 65, 80>>                     \* "PREGAP"

K_POSTGAP == <<80, 79, 83, 84, 71, 65, 80>>                \* "POSTGAP"

K_TYPE == <<84, 89, 80, 69>>                               \* "TYPE"

T_MODE1 == <<77, 79, 68, 69, 49>>                          \* "MODE1"

T_MODE2 == <<77, 79, 68, 69, 50>>                          \* "MODE2"

T_MODE2_2048 == T_MODE2 \o <<47, 50, 48, 52, 56>>          \* "MODE2/2048"

T_MODE2_FORM1 == T_MODE2 \o <<95, 70, 79, 82, 77, 49>>     \* "MODE2_FORM1"

T_MODE2_2324 == T_MODE2 \o <<47, 50, 51, 50, 52>>          \* "MODE2/2324"

T_MODE2_FORM2 == T_MODE2 \o <<95, 70, 79, 82, 77, 50>>     \* "MODE2_FORM2"

T_MODE2_2352 == T_MODE2 \o <<47, 50, 51, 53, 50>>          \* "MODE2/2352"

T_MODE2_RAW == T_MODE2 \o <<95, 82, 65, 87>>               \* "MODE2_RAW"

T_CDI_2352 == <<67, 68, 73, 47, 50, 51, 53, 50>>           \* "CDI/2352"

T_AUDIO == <<65, 85, 68, 73, 79>>                          \* "AUDIO"

D_2048 == <<50, 48, 52, 56>>                               \* "2048"

D_2324 == <<50, 51, 50, 52>>                               \* "2324"

SUBTYPE_NONE == <<83, 85, 66, 84, 89, 80, 69, 58, 78, 79, 78, 69>>    \* "SUBTYPE:NONE"

PGTYPE_PGSUB == <<80, 71, 84, 89, 80, 69, 58, 77, 79, 68, 69, 49, 32, 80, 71, 83, 85, 66, 58, 82, 87>>    \* "PGTYPE:MODE1 PGSUB:RW"

(***************************************************************************)
(* 4.A Track-line parser                                                   *)
(***************************************************************************)
\* the separators of s.split(..): ' ', '\t', '\n', '\r', ','
IsSeparator(c) == c \in {32, 9, 10, 13, 44}

\* s.split(separator): the pieces between separators, empty ones included. A
\* piece starts at the start of s and after every separator and runs to the next
\* separator or to the end of s
SplitOn(s) ==
    LET n        == Len(s)
        starts   == {i \in 1..(n + 1) : i = 1 \/ IsSeparator(s[i - 1])}
        EndOf(i) == IF \E j \in i..n : IsSeparator(s[j])
                    THEN (CHOOSE j \in i..n :
                              IsSeparator(s[j]) /\ \A k \in i..(j - 1) : ~IsSeparator(s[k]))
                         - 1
                    ELSE n
        Nth(k)   == CHOOSE i \in starts : Cardinality({j \in starts : j < i}) = k - 1
    IN  Tuple([k \in 1..Cardinality(starts) |-> SubSeq(s, Nth(k), EndOf(Nth(k)))])

\* tok.split_once(':'): <<key, value>> around the first ':', or <<>> without one
SplitOnce(tok) ==
    IF \E i \in DOMAIN tok : tok[i] = 58
    THEN LET i == CHOOSE j \in DOMAIN tok :
                      tok[j] = 58 /\ \A k \in 1..(j - 1) : tok[k] # 58
         IN  <<Take(tok, i - 1), Drop(tok, i)>>
    ELSE <<>>

IsDigit(c) == c >= 48 /\ c <= 57

RECURSIVE DigitsValue(_, _)
DigitsValue(ds, acc) ==
    IF ds = <<>> THEN acc ELSE DigitsValue(Tail(ds), acc * 10 + (ds[1] - 48))

RECURSIVE StripZeros(_)
StripZeros(ds) ==
    IF Len(ds) > 1 /\ ds[1] = 48 THEN StripZeros(Tail(ds)) ELSE ds

\* u32::MAX as text: "4294967295"
U32MaxDigits == <<52, 50, 57, 52, 57, 54, 55, 50, 57, 53>>

\* str::parse::<u32>: an optional '+', then one or more digits, at most u32::MAX.
\* [ok, val]
ParseU32(v) ==
    LET body == IF Len(v) > 0 /\ v[1] = 43 THEN Tail(v) ELSE v
        sig  == StripZeros(body)
        fits == \/ Len(sig) < Len(U32MaxDigits)
                \/ /\ Len(sig) = Len(U32MaxDigits)
                   /\ ~StrLess(U32MaxDigits, sig)
    IN  IF Len(body) > 0 /\ (\A i \in DOMAIN body : IsDigit(body[i])) /\ fits
        THEN [ok |-> TRUE, val |-> DigitsValue(sig, 0)]
        ELSE [ok |-> FALSE, val |-> 0]

\* v.parse().unwrap_or(0)
ParseOrZero(v) == ParseU32(v).val

\* the TYPE decoding table
TrackKindOf(v) ==
    IF v = T_MODE1 THEN "Mode1"
    ELSE IF v = T_MODE2_2048 \/ v = T_MODE2_FORM1 THEN "Mode2Form1"
    ELSE IF v = T_MODE2_2324 \/ v = T_MODE2_FORM2 THEN "Mode2Form2"
    ELSE IF v = T_MODE2_2352 \/ v = T_MODE2_RAW \/ v = T_CDI_2352 THEN "Mode2Raw"
    ELSE IF v = T_AUDIO THEN "Audio"
    ELSE IF StartsWith(v, T_MODE2) /\ Contains(v, D_2048) THEN "Mode2Form1"
    ELSE IF StartsWith(v, T_MODE2) /\ Contains(v, D_2324) THEN "Mode2Form2"
    ELSE "Audio"

NoTrack == [some |-> FALSE, number |-> 0, kind |-> "Audio",
            frames |-> 0, pregap |-> 0, postgap |-> 0]

\* the largest element of a non-empty set of numbers
MaxOf(S) == CHOOSE x \in S : \A y \in S : y <= x

\* the positions of the tokens that split_once(':') takes apart into key k and a
\* value; tokens that are empty or hold no ':' are passed over
WithKey(toks, k) ==
    {i \in DOMAIN toks : SplitOnce(toks[i]) # <<>> /\ SplitOnce(toks[i])[1] = k}

\* what the token loop leaves in the local of a key whose tokens are at the
\* positions at: each token overwrites the local, so the last one decides
FieldAt(toks, at) ==
    IF at = {} THEN [present |-> FALSE, value |-> <<>>]
    ELSE [present |-> TRUE, value |-> SplitOnce(toks[MaxOf(at)])[2]]

Field(toks, k) == FieldAt(toks, WithKey(toks, k))

\* frames / pregap / postgap: 0 at the start, v.parse().unwrap_or(0) per token
NumField(fld) == IF fld.present THEN ParseOrZero(fld.value) ELSE 0

\* Some(TrackInfo { number: number?, kind: kind?, .. })
TrackOf(number, type, frames, pregap, postgap) ==
    IF number.ok /\ type.present
    THEN [some |-> TRUE, number |-> number.val, kind |-> TrackKindOf(type.value),
          frames |-> NumField(frames), pregap |-> NumField(pregap),
          postgap |-> NumField(postgap)]
    ELSE NoTrack

\* a parser that takes a malformed TRACK value as 0, like the other numbers
NumberOfOrZero(fld) ==
    IF fld.present THEN [ok |-> TRUE, val |-> ParseOrZero(fld.value)]
    ELSE [ok |-> FALSE, val |-> 0]

\* number = v.parse().ok() of the last TRACK token, None without one
NumberOf(fld) == IF fld.present THEN ParseU32(fld.value) ELSE [ok |-> FALSE, val |-> 0]

TrackOfTokens(toks) ==
    TrackOf(NumberOf(Field(toks, K_TRACK)), Field(toks, K_TYPE), Field(toks, K_FRAMES),
            Field(toks, K_PREGAP), Field(toks, K_POSTGAP))

\* parse_track_line: a TrackInfo (some = TRUE) or None (some = FALSE)
parse_track_line(s) == TrackOfTokens(SplitOn(s))

(***************************************************************************)
(* The CHD archive (external): header, hunk-indexed decompression, blobs   *)
(***************************************************************************)
\* byte p of an archive's logical byte stream; in a CD image byte 0x0F of each
\* frame is the frame's mode byte
ArchiveByte(hdr, p) ==
    IF p >= hdr.logical_bytes THEN 0
    ELSE IF hdr.unit_bytes = CD_FRAME_2352 /\ p % CD_FRAME_2352 = 15
    THEN hdr.modes[(p \div CD_FRAME_2352) + 1]
    ELSE (hdr.seed + p + (p \div 256)) % 256

(***************************************************************************)
(* The archives the model draws its source directories from                *)
(***************************************************************************)
\* the decimal digits of n
RECURSIVE Dec(_)
Dec(n) == IF n < 10 THEN <<48 + n>> ELSE Dec(n \div 10) \o <<48 + (n % 10)>>

\* a CHT2 track descriptor as chdman writes it, NUL terminated:
\* "TRACK:n TYPE:t SUBTYPE:NONE FRAMES:f PREGAP:p PGTYPE:MODE1 PGSUB:RW POSTGAP:0\0"
TrackLine(n, type, frames, pregap) ==
    K_TRACK \o <<58>> \o Dec(n) \o <<32>> \o K_TYPE \o <<58>> \o type \o <<32>>
    \o SUBTYPE_NONE \o <<32>> \o K_FRAMES \o <<58>> \o Dec(frames) \o <<32>>
    \o K_PREGAP \o <<58>> \o Dec(pregap) \o <<32>> \o PGTYPE_PGSUB \o <<32>>
    \o K_POSTGAP \o <<58, 48, 0>>

Cht2(n, type, frames, pregap) == [tag |-> "CHT2", value |-> TrackLine(n, type, frames, pregap)]

\* an archive file on disk: its header, its metadata blobs and its decompressed
\* hunks, each hunk_size bytes, the last one zero padded after logical_bytes
File(name, unit_bytes, logical_bytes, hunk_size, metadata, modes, seed) ==
    LET hdr == [unit_bytes |-> unit_bytes, logical_bytes |-> logical_bytes,
                modes |-> modes, seed |-> seed]
        n   == IF hunk_size = 0 THEN 0 ELSE (logical_bytes + hunk_size - 1) \div hunk_size
    IN  [name |-> name, corrupt |-> FALSE, unit_bytes |-> unit_bytes,
         logical_bytes |-> logical_bytes, hunk_size |-> hunk_size,
         metadata |-> metadata, bad_hunks |-> {}, uid |-> 0, gid |-> 0,
         hunks |-> [h \in 1..n |->
                       Tuple([i \in 1..hunk_size |->
                                 ArchiveByte(hdr, (h - 1) * hunk_size + (i - 1))])]]

\* "dvd.chd": three 2048-byte sectors in hunks of two, the last hunk half used
F_dvd == File(<<100, 118, 100, 46, 99, 104, 100>>, 2048, 6144, 4096, <<>>, <<>>, 1)

\* "dvd.CHD": same stem as F_dvd, two sectors in hunks of one
F_dvd_upper == File(<<100, 118, 100, 46, 67, 72, 68>>, 2048, 4096, 2048, <<>>, <<>>, 7)

\* "raw.chd": 512-byte units, ten of them in hunks of eight
F_raw == File(<<114, 97, 119, 46, 99, 104, 100>>, 512, 5120, 4096, <<>>, <<>>, 3)

\* "cd.chd": four frames in hunks of two; track 1 audio (1 frame), track 2 MODE1
\* (2 frames); the blob of track 2 comes first
F_cd == File(<<99, 100, 46, 99, 104, 100>>, 2352, 4 * 2352, 2 * 2352,
             <<Cht2(2, T_MODE1, 2, 0), Cht2(1, T_AUDIO, 1, 0)>>, <<0, 1, 1, 0>>, 11)

\* "scan.chd": three frames in hunks of one, no track metadata; frame 0 has no
\* data mode byte, frames 1 and 2 are Mode 2
F_scan == File(<<115, 99, 97, 110, 46, 99, 104, 100>>, 2352, 3 * 2352, 2352, <<>>, <<0, 2, 2>>, 23)

\* "xa.chd": two Mode 2 frames in one hunk; its only track is MODE2/2324
F_xa == File(<<120, 97, 46, 99, 104, 100>>, 2352, 2 * 2352, 2 * 2352,
             <<Cht2(1, T_MODE2_2324, 2, 0)>>, <<2, 2>>, 31)

\* "mix.chd": three frames in one hunk; track 1 MODE2_FORM2 (1 frame), track 2
\* MODE1 (2 frames)
F_mix == File(<<109, 105, 120, 46, 99, 104, 100>>, 2352, 3 * 2352, 3 * 2352,
              <<Cht2(1, T_MODE2_FORM2, 1, 0), Cht2(2, T_MODE1, 2, 0)>>, <<2, 1, 1>>, 41)

\* "notes.txt": not an archive
F_txt == File(<<110, 111, 116, 101, 115, 46, 116, 120, 116>>, 0, 0, 0, <<>>, <<>>, 0)

\* "bad.chd": Chd::open fails
F_bad == [File(<<98, 97, 100, 46, 99, 104, 100>>, 0, 0, 0, <<>>, <<>>, 0) EXCEPT !.corrupt = TRUE]

\* "worn.chd": a MODE1 track of three frames in hunks of one; the second hunk
\* does not decode
F_worn == [File(<<119, 111, 114, 110, 46, 99, 104, 100>>, 2352, 3 * 2352, 2352,
                <<Cht2(1, T_MODE1, 3, 0)>>, <<1, 1, 1>>, 53) EXCEPT !.bad_hunks = {1}]

\* "torn.chd": three 2048-byte sectors in hunks of one; the second hunk does not
\* decode
F_torn == [File(<<116, 111, 114, 110, 46, 99, 104, 100>>, 2048, 3 * 2048, 2048,
                <<>>, <<>>, 61) EXCEPT !.bad_hunks = {1}]

\* a CHT2 track descriptor with gaps g, NUL terminated when g.nul
TrackLineGaps(n, type, g) ==
    K_TRACK \o <<58>> \o Dec(n) \o <<32>> \o K_TYPE \o <<58>> \o type \o <<32>>
    \o SUBTYPE_NONE \o <<32>> \o K_FRAMES \o <<58>> \o Dec(g.frames) \o <<32>>
    \o K_PREGAP \o <<58>> \o Dec(g.pregap) \o <<32>> \o PGTYPE_PGSUB \o <<32>>
    \o K_POSTGAP \o <<58>> \o Dec(g.postgap) \o (IF g.nul THEN <<0>> ELSE <<>>)

\* the tokens the descriptors under test are put together from: the text of the
\* token(s), whether it holds the key with a value (key), whether that value is
\* an unsigned 32-bit number (ok), and the number (val, 0 when there is none)
TrackTokens ==
    <<[text |-> <<>>,   \* ""
       key |-> FALSE, ok |-> FALSE, val |-> 0],
      [text |-> <<84, 82, 65, 67, 75, 58, 49>>,   \* "TRACK:1"
       key |-> TRUE, ok |-> TRUE, val |-> 1],
      [text |-> <<84, 82, 65, 67, 75, 58, 120>>,   \* "TRACK:x"
       key |-> TRUE, ok |-> FALSE, val |-> 0],
      [text |-> <<84, 82, 65, 67, 75, 58, 45, 49>>,   \* "TRACK:-1"
       key |-> TRUE, ok |-> FALSE, val |-> 0],
      [text |-> <<84, 82, 65, 67, 75, 58, 52, 50, 57, 52, 57, 54, 55, 50, 57, 54>>,   \* "TRACK:4294967296"
       key |-> TRUE, ok |-> FALSE, val |-> 0],
      [text |-> <<84, 82, 65, 67, 75, 58>>,   \* "TRACK:"
       key |-> TRUE, ok |-> FALSE, val |-> 0],
      [text |-> <<84, 82, 65, 67, 75>>,   \* "TRACK"
       key |-> FALSE, ok |-> FALSE, val |-> 0],
      [text |-> <<84, 82, 65, 67, 75, 58, 43, 50>>,   \* "TRACK:+2"
       key |-> TRUE, ok |-> TRUE, val |-> 2],
      [text |-> <<84, 82, 65, 67, 75, 58, 49, 32, 84, 82, 65, 67, 75, 58, 120>>,   \* "TRACK:1 TRACK:x"
       key |-> TRUE, ok |-> FALSE, val |-> 0],
      [text |-> <<84, 82, 65, 67, 75, 58, 120, 32, 84, 82, 65, 67, 75, 58, 51>>,   \* "TRACK:x TRACK:3"
       key |-> TRUE, ok |-> TRUE, val |-> 3],
      [text |-> <<84, 82, 65, 67, 75, 58, 48, 48, 55>>,   \* "TRACK:007"
       key |-> TRUE, ok |-> TRUE, val |-> 7]>>

TypeTokens ==
    <<[text |-> <<>>,   \* ""
       key |-> FALSE, ok |-> FALSE, val |-> 0],
      [text |-> <<84, 89, 80, 69, 58, 77, 79, 68, 69, 49>>,   \* "TYPE:MODE1"
       key |-> TRUE, ok |-> FALSE, val |-> 0],
      [text |-> <<84, 89, 80, 69, 58, 106, 117, 110, 107>>,   \* "TYPE:junk"
       key |-> TRUE, ok |-> FALSE, val |-> 0],
      [text |-> <<84, 89, 80, 69, 58>>,   \* "TYPE:"
       key |-> TRUE, ok |-> FALSE, val |-> 0]>>

FramesTokens ==
    <<[text |-> <<>>,   \* ""
       key |-> FALSE, ok |-> FALSE, val |-> 0],
      [text |-> <<70, 82, 65, 77, 69, 83, 58, 51>>,   \* "FRAMES:3"
       key |-> TRUE, ok |-> TRUE, val |-> 3],
      [text |-> <<70, 82, 65, 77, 69, 83, 58, 97, 98, 99>>,   \* "FRAMES:abc"
       key |-> TRUE, ok |-> FALSE, val |-> 0],
      [text |-> <<70, 82, 65, 77, 69, 83, 58, 45, 53>>,   \* "FRAMES:-5"
       key |-> TRUE, ok |-> FALSE, val |-> 0],
      [text |-> <<70, 82, 65, 77, 69, 83, 58, 52, 50, 57, 52, 57, 54, 55, 50, 57, 54>>,   \* "FRAMES:4294967296"
       key |-> TRUE, ok |-> FALSE, val |-> 0]>>

PregapTokens ==
    <<[text |-> <<>>,   \* ""
       key |-> FALSE, ok |-> FALSE, val |-> 0],
      [text |-> <<80, 82, 69, 71, 65, 80, 58, 50>>,   \* "PREGAP:2"
       key |-> TRUE, ok |-> TRUE, val |-> 2],
      [text |-> <<80, 82, 69, 71, 65, 80, 58, 57, 57, 57, 57, 57, 57, 57, 57, 57, 57, 57>>,   \* "PREGAP:99999999999"
       key |-> TRUE, ok |-> FALSE, val |-> 0]>>

PostgapTokens ==
    <<[text |-> <<>>,   \* ""
       key |-> FALSE, ok |-> FALSE, val |-> 0],
      [text |-> <<80, 79, 83, 84, 71, 65, 80, 58, 49>>,   \* "POSTGAP:1"
       key |-> TRUE, ok |-> TRUE, val |-> 1],
      [text |-> <<80, 79, 83, 84, 71, 65, 80, 58, 49, 0>>,   \* "POSTGAP:1\0"
       key |-> TRUE, ok |-> FALSE, val |-> 0]>>

\* a descriptor under test: one token of each table, each followed by the
\* separator sep (a space or a comma)
LineCases ==
    [t : DOMAIN TrackTokens, y : DOMAIN TypeTokens, f : DOMAIN FramesTokens,
     p : DOMAIN PregapTokens, q : DOMAIN PostgapTokens, sep : {32, 44}]

Piece(text, sep) == IF text = <<>> THEN <<>> ELSE text \o <<sep>>

LineOf(c) ==
    Piece(TrackTokens[c.t].text, c.sep) \o Piece(TypeTokens[c.y].text, c.sep)
    \o Piece(FramesTokens[c.f].text, c.sep) \o Piece(PregapTokens[c.p].text, c.sep)
    \o Piece(PostgapTokens[c.q].text, c.sep)

LineTable == [c \in LineCases |-> LineOf(c)]

TrackLines == {LineTable[c] : c \in LineCases}

\* the TYPE values the two-track discs are written with
TocTypes == <<T_AUDIO, T_MODE1, T_MODE2_FORM1, T_MODE2_FORM2, T_MODE2_RAW>>

\* FRAMES, PREGAP and POSTGAP of track 1 and of track 2 of the two-track discs;
\* the discs hold four frames, so FRAMES:9 and PREGAP:5 are beyond the archive
TocGaps1 == <<[frames |-> 1, pregap |-> 0, postgap |-> 0, nul |-> TRUE],
              [frames |-> 1, pregap |-> 1, postgap |-> 1, nul |-> TRUE],
              [frames |-> 1, pregap |-> 1, postgap |-> 1, nul |-> FALSE]>>

TocGaps2 == <<[frames |-> 1, pregap |-> 0, postgap |-> 0, nul |-> TRUE],
              [frames |-> 2, pregap |-> 1, postgap |-> 0, nul |-> TRUE],
              [frames |-> 9, pregap |-> 0, postgap |-> 0, nul |-> TRUE],
              [frames |-> 1, pregap |-> 5, postgap |-> 0, nul |-> TRUE]>>

\* the two-track discs: which blob comes first, the TYPE of each track (an index
\* of TocTypes) and its gaps (an index of TocGaps1, TocGaps2)
TocParams ==
    [first : {1, 2}, k1 : {1, 2, 4}, k2 : {1, 2, 3}, g1 : DOMAIN TocGaps1,
     g2 : DOMAIN TocGaps2]

\* "t<code>.chd", one name per two-track disc
TocName(p) ==
    <<116>> \o Dec((p.first - 1) + 2 * ((p.k1 - 1) + 5 * ((p.k2 - 1) + 5 * ((p.g1 - 1)
                     + 3 * (p.g2 - 1)))))
    \o <<46, 99, 104, 100>>

TocBlob(p, n) ==
    IF n = 1
    THEN [tag |-> "CHT2", value |-> TrackLineGaps(1, TocTypes[p.k1], TocGaps1[p.g1])]
    ELSE [tag |-> "CHT2", value |-> TrackLineGaps(2, TocTypes[p.k2], TocGaps2[p.g2])]

\* four frames in hunks of two, frame 0 without a data mode byte, the others
\* Mode 1
F_toc == File(<<116, 46, 99, 104, 100>>, 2352, 4 * 2352, 2 * 2352, <<>>, <<0, 1, 1, 1>>, 71)

\* the two-track disc of p: F_toc under its own name with its two track blobs
TocDisc(p) ==
    [F_toc EXCEPT !.name = TocName(p),
                  !.metadata = <<TocBlob(p, p.first), TocBlob(p, 3 - p.first)>>]

TocDiscs == {TocDisc(p) : p \in TocParams}

Catalogue ==
    {F_dvd, F_dvd_upper, F_raw, F_cd, F_scan, F_xa, F_mix, F_txt, F_bad, F_worn, F_torn}
    \cup TocDiscs

\* the file stored under a path of the source directory
Disk(path) == CHOOSE f \in Catalogue : f.name = path


\* the number of hunks of the archive
HunkCount(f) == Len(f.hunks)

\* chd.hunk(idx) and read_hunk_in: fails for a hunk the archive does not hold or
\* cannot decode
HunkOk(f, idx) == idx < HunkCount(f) /\ idx \notin f.bad_hunks

\* the decompressed hunk
HunkBuf(f, idx) == f.hunks[idx + 1]

\* File::open(path): the path is in the source directory and was not removed
FileExists(dir, missing, path) ==
    path \notin missing /\ \E i \in DOMAIN dir : dir[i] = path

OpenResult(exists, f) == [ok |-> exists /\ ~f.corrupt, f |-> f]

\* File::open(path) followed by Chd::open: [ok, f]
ChdOpen(dir, missing, path) == OpenResult(FileExists(dir, missing, path), Disk(path))

(***************************************************************************)
(* Path::extension and Path::file_stem                                     *)
(***************************************************************************)
\* position of the last '.', 0 without one
LastDot(name) ==
    IF \E i \in DOMAIN name : name[i] = 46
    THEN CHOOSE i \in DOMAIN name :
             name[i] = 46 /\ \A j \in (i + 1)..Len(name) : name[j] # 46
    ELSE 0

HasExtension(name) == LastDot(name) > 1

Extension(name) == Drop(name, LastDot(name))

FileStem(name) == IF HasExtension(name) THEN Take(name, LastDot(name) - 1) ELSE name

\* the filter of build_index: extension equal to "chd", ASCII case ignored
IsChdFile(name) == HasExtension(name) /\ ToLower(Extension(name)) = S_chd

(***************************************************************************)
(* 4.B Geometry classifier                                                 *)
(***************************************************************************)
\* stable insertion of track t into a list sorted by number
RECURSIVE InsertTrack(_, _)
InsertTrack(sorted, t) ==
    IF sorted = <<>> THEN <<t>>
    ELSE IF sorted[Len(sorted)].number <= t.number THEN Append(sorted, t)
    ELSE Append(InsertTrack(Take(sorted, Len(sorted) - 1), t), sorted[Len(sorted)])

\* tracks.sort_by_key(|t| t.number): stable
RECURSIVE SortTracks(_)
SortTracks(ts) ==
    IF ts = <<>> THEN <<>>
    ELSE InsertTrack(SortTracks(Take(ts, Len(ts) - 1)), ts[Len(ts)])

IsTrackBlob(b) == b.tag = "CHTR" \/ b.tag = "CHT2"

IsSome(x) == x.some

TrackOfBlob(b) == IF IsTrackBlob(b) THEN parse_track_line(b.value) ELSE NoTrack

\* the metadata loop: the track records of the CHTR / CHT2 blobs that parse, in
\* blob order
CollectTracks(blobs) ==
    SelectSeq([i \in DOMAIN blobs |-> TrackOfBlob(blobs[i])], IsSome)

\* the payload kind a track kind is exposed as, "None" when it is skipped
PayloadOfTrack(kind, allow_form2) ==
    CASE kind = "Audio"      -> "None"
      [] kind = "Mode1"      -> "Mode1_2048"
      [] kind = "Mode2Form1" -> "Mode2Form1_2048"
      [] kind = "Mode2Form2" -> IF allow_form2 THEN "Mode2Form2_2324" ELSE "None"
      [] kind = "Mode2Raw"   -> "None"

NoToc == [some |-> FALSE, lba |-> 0, payload |-> "None", frames |-> 0]

\* the walk over the sorted tracks with the running LBA
RECURSIVE WalkTracks(_, _, _)
WalkTracks(ts, lba0, allow_form2) ==
    IF ts = <<>> THEN NoToc
    ELSE LET t   == ts[1]
             lba == lba0 + t.pregap
             pk  == PayloadOfTrack(t.kind, allow_form2)
         IN  IF pk # "None"
             THEN [some |-> TRUE, lba |-> lba, payload |-> pk, frames |-> t.frames]
             ELSE WalkTracks(Tail(ts), lba + t.frames + t.postgap, allow_form2)

\* the TOC of the parsed tracks: None without tracks, else the walk over them in
\* track-number order
TocOfTracks(tracks, allow_form2) ==
    IF tracks = <<>> THEN NoToc
    ELSE WalkTracks(SortTracks(tracks), 0, allow_form2)

\* parse_cd_toc_from_metadata: Some((first_data_lba, payload_kind, Some(frames)))
\* or None
parse_cd_toc_from_metadata(f, allow_form2) ==
    TocOfTracks(CollectTracks(f.metadata), allow_form2)

\* the scan loop from frame on: [ok, lba, payload]
RECURSIVE ScanFrom(_, _, _, _)
ScanFrom(f, frame, scan_limit, allow_form2) ==
    IF frame >= scan_limit
    THEN [ok |-> TRUE, lba |-> 0, payload |-> "Mode1_2048"]
    ELSE LET frames_per_hunk == f.hunk_size \div CD_FRAME_2352
             hunk_index      == frame \div frames_per_hunk
             frame_in_hunk   == frame % frames_per_hunk
             base            == frame_in_hunk * CD_FRAME_2352
             mode            == HunkBuf(f, hunk_index)[base + 15 + 1]
         IN  IF ~HunkOk(f, hunk_index)
             THEN [ok |-> FALSE, lba |-> 0, payload |-> "None"]
             ELSE IF mode = 1
             THEN [ok |-> TRUE, lba |-> frame, payload |-> "Mode1_2048"]
             ELSE IF mode = 2
             THEN [ok |-> TRUE, lba |-> frame,
                   payload |-> IF allow_form2 THEN "Mode2Form2_2324"
                                              ELSE "Mode2Form1_2048"]
             ELSE ScanFrom(f, frame + 1, scan_limit, allow_form2)

\* quick_scan_first_data
quick_scan_first_data(f, total_frames, allow_form2) ==
    ScanFrom(f, 0, Min(total_frames, ScanLimit), allow_form2)

\* user bytes per frame of a payload kind
PerSector(payload_kind) ==
    IF payload_kind = "Mode2Form2_2324" THEN 2324 ELSE 2048

\* a reader that takes the user bytes of every frame at the Mode 1 offset
PayloadStartMode1Only(payload_kind) == 16

\* offset of the user bytes inside the 2352-byte frame
PayloadStart(payload_kind) ==
    IF payload_kind = "Mode1_2048" THEN 16 ELSE 24

KindDvd == [tag |-> "Dvd2048", first_data_lba |-> 0, payload_kind |-> "None",
            has_track_frames |-> FALSE, track_frames |-> 0]

KindRaw == [tag |-> "Raw2048", first_data_lba |-> 0, payload_kind |-> "None",
            has_track_frames |-> FALSE, track_frames |-> 0]

KindCd(lba, payload, has_frames, frames) ==
    [tag |-> "Cd2352", first_data_lba |-> lba, payload_kind |-> payload,
     has_track_frames |-> has_frames, track_frames |-> frames]

Hidden == [res |-> "None", name |-> <<>>, kind |-> KindRaw, size |-> 0]

Failed == [res |-> "Err", name |-> <<>>, kind |-> KindRaw, size |-> 0]

Panicked == [res |-> "Panic", name |-> <<>>, kind |-> KindRaw, size |-> 0]

Visible(name, kind, size) == [res |-> "Some", name |-> name, kind |-> kind, size |-> size]

\* the name and size of a CD entry from its payload kind, or Hidden
CdEntry(stem, lba, payload, has_frames, frames_in_track, total_frames, allow_form2) ==
    LET frames == IF has_frames THEN frames_in_track ELSE total_frames - lba
        kind   == KindCd(lba, payload, has_frames, frames_in_track)
    IN  IF payload = "Mode2Form2_2324"
        THEN IF allow_form2
             THEN Visible(stem \o S_form2_bin, kind, frames * 2324)
             ELSE Hidden
        ELSE Visible(stem \o S_dot_iso, kind, frames * 2048)

\* the CD branch after the quick scan sc
CdFromScan(f, sc, allow_form2) ==
    IF ~sc.ok THEN Failed
    ELSE CdEntry(FileStem(f.name), sc.lba, sc.payload, FALSE, 0,
                 f.logical_bytes \div 2352, allow_form2)

\* the CD branch after parse_cd_toc_from_metadata returned toc:
\* unwrap_or(total_frames - first_lba) evaluates its argument even when the frame
\* count is known, and the subtraction underflows when first_lba > total_frames
\* (a panic with overflow checks, a discarded wrapped value without)
CdFromToc(f, toc, allow_form2, overflow_checks) ==
    IF toc.some
    THEN IF toc.lba > f.logical_bytes \div 2352 /\ overflow_checks
         THEN Panicked
         ELSE CdEntry(FileStem(f.name), toc.lba, toc.payload, TRUE, toc.frames,
                      f.logical_bytes \div 2352, allow_form2)
    ELSE CdFromScan(f, quick_scan_first_data(f, f.logical_bytes \div 2352, allow_form2),
                    allow_form2)

\* build_index_entry: Ok(Some((name, kind, size))), Ok(None), Err, or a panic
build_index_entry(f, allow_form2, overflow_checks) ==
    IF f.corrupt THEN Failed
    ELSE IF f.unit_bytes = 2048
    THEN Visible(FileStem(f.name) \o S_dot_iso, KindDvd, f.logical_bytes)
    ELSE IF f.unit_bytes = 2352
    THEN CdFromToc(f, parse_cd_toc_from_metadata(f, allow_form2), allow_form2,
                   overflow_checks)
    ELSE Visible(FileStem(f.name) \o S_dot_iso, KindRaw, f.logical_bytes)

(***************************************************************************)
(* 4.F Index                                                               *)
(***************************************************************************)
IsVisible(r) == r.res = "Some"

\* the outcome of one directory entry: the IndexEntry pushed for Ok(Some(..)),
\* with ino 0, and the outcome itself in res
Outcome(path, r) ==
    [res |-> r.res, ino |-> 0, name |-> r.name, chd_path |-> path, kind |-> r.kind,
     iso_size |-> r.size]

\* the body of the loop over read_dir: files without the chd extension are
\* passed over
OutcomeOf(path, allow_form2, overflow_checks) ==
    IF IsChdFile(path)
    THEN Outcome(path, build_index_entry(Disk(path), allow_form2, overflow_checks))
    ELSE Outcome(path, Hidden)

Classified(dir, allow_form2, overflow_checks) ==
    [i \in DOMAIN dir |-> OutcomeOf(dir[i], allow_form2, overflow_checks)]

IndexEntry(o) ==
    [ino |-> o.ino, name |-> o.name, chd_path |-> o.chd_path, kind |-> o.kind,
     iso_size |-> o.iso_size]

\* tmp after the loop: the entries pushed, in read_dir order
Pushed(pushed) == [i \in DOMAIN pushed |-> IndexEntry(pushed[i])]

CollectEntries(outcomes) == Pushed(SelectSeq(outcomes, IsVisible))

\* stable insertion of entry e into a list sorted by lowercased name
RECURSIVE InsertEntry(_, _)
InsertEntry(sorted, e) ==
    IF sorted = <<>> THEN <<e>>
    ELSE IF ~StrLess(ToLower(e.name), ToLower(sorted[Len(sorted)].name))
    THEN Append(sorted, e)
    ELSE Append(InsertEntry(Take(sorted, Len(sorted) - 1), e), sorted[Len(sorted)])

\* an index left in read_dir order
SortEntriesNone(es) == es

\* tmp.sort_by(|a, b| a.name.to_lowercase().cmp(&b.name.to_lowercase())): stable
RECURSIVE SortEntries(_)
SortEntries(es) ==
    IF es = <<>> THEN <<>>
    ELSE InsertEntry(SortEntries(Take(es, Len(es) - 1)), es[Len(es)])

\* e.ino = i + 2 for the entry at position i (from 0)
AssignInodes(es) == [i \in DOMAIN es |-> [es[i] EXCEPT !.ino = (i - 1) + FIRST_FILE_INO]]

\* the index of the classified directory: [panic, entries]. build_index panics
\* when the classification of one of the archives does
IndexOf(outcomes) ==
    [panic   |-> \E i \in DOMAIN outcomes : outcomes[i].res = "Panic",
     entries |-> AssignInodes(SortEntries(CollectEntries(outcomes)))]

\* build_index: whether it panics, and the value of self.entries if not
build_index(dir, allow_form2, overflow_checks) ==
    IndexOf(Classified(dir, allow_form2, overflow_checks))

(***************************************************************************)
(* 4.D Frame cache: LruCache<(file_id, frame_index), Vec<u8>>              *)
(***************************************************************************)
\* LruCache::new(cache_cap): cache_hunks, or 64 when it is 0
CacheCap(a) == IF a.cache_hunks = 0 THEN DefaultCacheCap ELSE a.cache_hunks

\* position of key in the cache, 0 when absent
LruIndex(cache, key) ==
    IF \E i \in DOMAIN cache : cache[i].key = key
    THEN CHOOSE i \in DOMAIN cache : cache[i].key = key
    ELSE 0

LruRemoveAt(cache, i) == Take(cache, i - 1) \o Drop(cache, i)

\* a lookup that leaves the order of the cache as it is
LruPeek(cache, i) == cache

\* LruCache::get: a hit makes the key the most recently used
LruTouch(cache, i) == Append(LruRemoveAt(cache, i), cache[i])

\* a container that grows without bound
LruPutUnbounded(cache, cap, key, val) == Append(cache, [key |-> key, val |-> val])

\* LruCache::put: replaces the value of a resident key, else evicts the least
\* recently used entry when the cache is at capacity; the key becomes the most
\* recently used
LruPut(cache, cap, key, val) ==
    LET i    == LruIndex(cache, key)
        item == [key |-> key, val |-> val]
    IN  IF i # 0 THEN Append(LruRemoveAt(cache, i), item)
        ELSE IF Len(cache) >= cap THEN Append(Tail(cache), item)
        ELSE Append(cache, item)

\* usize::saturating_sub
SaturatingSub(a, b) == IF a >= b THEN a - b ELSE 0

\* a byte cap that is never enforced
EvictNothing(cache, bytes, cache_bytes) == [cache |-> cache, bytes |-> bytes]

\* evict_cache_if_needed: [cache, bytes]
RECURSIVE evict_cache_if_needed(_, _, _)
evict_cache_if_needed(cache, bytes, cache_bytes) ==
    IF bytes > cache_bytes /\ cache # <<>>
    THEN evict_cache_if_needed(Tail(cache),
                               SaturatingSub(bytes, Len(cache[1].val)), cache_bytes)
    ELSE [cache |-> cache, bytes |-> bytes]

\* a cache keyed by the frame index alone
CacheKeyFrameOnly(file_id, frame_index) == <<0, frame_index>>

\* the cache key of a frame: (file_id, frame_index)
CacheKey(file_id, frame_index) == <<file_id, frame_index>>

\* Err(..) of get_cd_frame: the cache is as it was
FrameErr(cache, bytes) == [ok |-> FALSE, frame |-> <<>>, cache |-> cache, bytes |-> bytes]

\* a hit at position hit: frame_cache.get(..) and the clone of the buffer
FrameHit(cache, bytes, hit) ==
    [ok |-> TRUE, frame |-> cache[hit].val, cache |-> LruTouch(cache, hit),
     bytes |-> bytes]

\* frame_cache.put(key, owned.clone()) after the eviction ev; Ok(owned)
FramePut(ev, a, key, owned) ==
    [ok |-> TRUE, frame |-> owned, cache |-> LruPut(ev.cache, CacheCap(a), key, owned),
     bytes |-> ev.bytes]

\* an insertion that does not count the new frame
FrameInsertUncounted(cache, bytes, a, key, owned) ==
    FramePut(evict_cache_if_needed(cache, bytes, a.cache_bytes), a, key, owned)

\* approx_cache_bytes += owned.len(); evict_cache_if_needed(); put
FrameInsert(cache, bytes, a, key, owned) ==
    FramePut(evict_cache_if_needed(cache, bytes + Len(owned), a.cache_bytes), a, key,
             owned)

\* the decoding of frame frame_index from the opened archive f
FrameDecode(cache, bytes, a, key, f, frame_index) ==
    LET frames_per_hunk == f.hunk_size \div CD_FRAME_2352
        hunk_index      == frame_index \div frames_per_hunk
        frame_in_hunk   == frame_index % frames_per_hunk
        frame_off       == frame_in_hunk * CD_FRAME_2352
    IN  IF frames_per_hunk = 0 THEN FrameErr(cache, bytes)
        ELSE IF ~HunkOk(f, hunk_index) THEN FrameErr(cache, bytes)
        ELSE FrameInsert(cache, bytes, a, key,
                         SubSeq(HunkBuf(f, hunk_index), frame_off + 1,
                                frame_off + CD_FRAME_2352))

\* the miss path: File::open and Chd::open, then the decoding
FrameMiss(cache, bytes, a, key, opened, frame_index) ==
    IF ~opened.ok THEN FrameErr(cache, bytes)
    ELSE FrameDecode(cache, bytes, a, key, opened.f, frame_index)

FrameByKey(cache, bytes, a, dir, missing, path, frame_index, key) ==
    IF LruIndex(cache, key) # 0 THEN FrameHit(cache, bytes, LruIndex(cache, key))
    ELSE FrameMiss(cache, bytes, a, key, ChdOpen(dir, missing, path), frame_index)

\* get_cd_frame: [ok, frame, cache, bytes]
get_cd_frame(cache, bytes, a, dir, missing, file_id, path, frame_index) ==
    FrameByKey(cache, bytes, a, dir, missing, path, frame_index,
               CacheKey(file_id, frame_index))

(***************************************************************************)
(* 4.E Sector-view reader                                                  *)
(***************************************************************************)
ReadData(data, cache, bytes) ==
    [kind |-> "data", errno |-> "", data |-> data, cache |-> cache, bytes |-> bytes]

ReadError(errno, cache, bytes) ==
    [kind |-> "error", errno |-> errno, data |-> <<>>, cache |-> cache, bytes |-> bytes]

ReadPanic(cache, bytes) ==
    [kind |-> "panic", errno |-> "", data |-> <<>>, cache |-> cache, bytes |-> bytes]

\* payload = &sec[payload_start..payload_start + per_sector]
PayloadOf(sec, payload_kind) ==
    SubSeq(sec, PayloadStart(payload_kind) + 1,
           PayloadStart(payload_kind) + PerSector(payload_kind))

\* the frame loop of read_iso_from_cd; st is [out, off], off the offset in the
\* current sector
RECURSIVE CdLoop(_, _, _, _, _, _, _, _, _, _, _, _)

\* the body of the loop once get_cd_frame returned got
CdStep(a, dir, missing, file_id, path, start_frame, payload_kind, want, cur_iso_sector, st, got, take) ==
    IF ~got.ok THEN ReadError("EIO", got.cache, got.bytes)
    ELSE CdLoop(got.cache, got.bytes, a, dir, missing, file_id, path, start_frame,
                payload_kind, want - take, cur_iso_sector + 1,
                [out |-> st.out \o SubSeq(PayloadOf(got.frame, payload_kind),
                                          st.off + 1, st.off + take),
                 off |-> 0])

CdLoop(cache, bytes, a, dir, missing, file_id, path, start_frame, payload_kind, want, cur_iso_sector, st) ==
    IF want = 0 THEN ReadData(st.out, cache, bytes)
    ELSE CdStep(a, dir, missing, file_id, path, start_frame, payload_kind, want,
                cur_iso_sector, st,
                get_cd_frame(cache, bytes, a, dir, missing, file_id, path,
                             start_frame + cur_iso_sector),
                Min(PerSector(payload_kind) - st.off, want))

\* read_iso_from_cd
read_iso_from_cd(cache, bytes, a, dir, missing, file_id, path, start_frame, payload_kind, offset, size, max_len) ==
    IF offset >= max_len \/ size = 0 THEN ReadData(<<>>, cache, bytes)
    ELSE LET per_sector == PerSector(payload_kind)
             end        == Min(offset + size, max_len)
         IN  CdLoop(cache, bytes, a, dir, missing, file_id, path, start_frame,
                    payload_kind, end - offset, offset \div per_sector,
                    [out |-> <<>>, off |-> offset % per_sector])

\* a reader that copies from the start of every hunk
InHunkOffZero(pos, hunk_size) == 0

\* in_hunk_off: where byte pos of the logical stream lies inside its hunk
InHunkOff(pos, hunk_size) == pos % hunk_size

\* the hunk loop of the Dvd2048 / Raw2048 branch of read: [ok, data]
RECURSIVE DvdLoop(_, _, _, _)
DvdLoop(f, pos, left, buf) ==
    IF left = 0 THEN [ok |-> TRUE, data |-> buf]
    ELSE LET hunk_idx    == pos \div f.hunk_size
             in_hunk_off == InHunkOff(pos, f.hunk_size)
             take        == Min(f.hunk_size - in_hunk_off, left)
         IN  IF ~HunkOk(f, hunk_idx) THEN [ok |-> FALSE, data |-> <<>>]
             ELSE DvdLoop(f, pos + take, left - take,
                          buf \o SubSeq(HunkBuf(f, hunk_idx), in_hunk_off + 1,
                                        in_hunk_off + take))

(***************************************************************************)
(* 4.G FS adapter: the handlers, as functions of the state they read       *)
(***************************************************************************)
HasIno(es, ino) == \E i \in DOMAIN es : es[i].ino = ino

\* self.entries.iter().find(|e| e.ino == ino)
EntryByIno(es, ino) == es[CHOOSE i \in DOMAIN es : es[i].ino = ino]

HasName(es, name) == \E i \in DOMAIN es : es[i].name = name

\* self.entries.iter().find(|e| e.name == name): the first match
EntryByName(es, name) ==
    es[CHOOSE i \in DOMAIN es : es[i].name = name /\ \A j \in 1..(i - 1) : es[j].name # name]

\* geteuid() / getegid() of the serving process
EffectiveIds == [uid |-> 1000, gid |-> 1000]

NoAttr == [ino |-> 0, size |-> 0, blocks |-> 0, kind |-> "None", perm |-> 0,
           nlink |-> 0, uid |-> 0, gid |-> 0, times |-> "none"]

\* default_file_attr
default_file_attr(e) ==
    [ino |-> e.ino, size |-> e.iso_size, blocks |-> (e.iso_size + 511) \div 512,
     kind |-> "RegularFile", perm |-> 292, nlink |-> 1,
     uid |-> EffectiveIds.uid, gid |-> EffectiveIds.gid, times |-> "now"]

\* Ok(FileAttr { .. }) of file_attr_for, from the filesystem metadata meta
AttrFrom(e, meta) ==
    [ino |-> e.ino, size |-> e.iso_size, blocks |-> (e.iso_size + 511) \div 512,
     kind |-> "RegularFile", perm |-> 292, nlink |-> 1, uid |-> meta.uid,
     gid |-> meta.gid, times |-> "archive"]

\* file_attr_for on an archive that is still there
file_attr_for(e) == AttrFrom(e, Disk(e.chd_path))

\* the attributes getattr returns for inode 1
RootAttr ==
    [ino |-> ROOT_INO, size |-> 0, blocks |-> 1, kind |-> "Directory", perm |-> 493,
     nlink |-> 2, uid |-> EffectiveIds.uid, gid |-> EffectiveIds.gid, times |-> "now"]

NoReply ==
    [op |-> "none", kind |-> "none", errno |-> "", ino |-> 0, fh |-> 0, offset |-> 0,
     size |-> 0, parent |-> 0, name |-> <<>>, cap |-> 0, data |-> <<>>,
     attr |-> NoAttr, items |-> <<>>, file_id |-> 0]

\* reply.entry(&TTL, &attr, 0) for entry e:
\* file_attr_for(e).unwrap_or_else(|_| default_file_attr(e))
LookupEntry(r, e, dir, missing) ==
    [r EXCEPT !.kind = "entry",
              !.attr = IF FileExists(dir, missing, e.chd_path)
                       THEN file_attr_for(e)
                       ELSE default_file_attr(e)]

\* Filesystem::lookup: the parent is not looked at
lookup(es, dir, missing, parent, name) ==
    IF HasName(es, name)
    THEN LookupEntry([NoReply EXCEPT !.op = "lookup", !.parent = parent, !.name = name],
                     EntryByName(es, name), dir, missing)
    ELSE [NoReply EXCEPT !.op = "lookup", !.parent = parent, !.name = name,
                         !.kind = "error", !.errno = "ENOENT"]

\* the file branch of getattr for entry e
GetattrEntry(r, e, dir, missing) ==
    IF FileExists(dir, missing, e.chd_path)
    THEN [r EXCEPT !.kind = "attr", !.attr = file_attr_for(e)]
    ELSE [r EXCEPT !.kind = "error", !.errno = "EIO"]

\* Filesystem::getattr
getattr(es, dir, missing, ino) ==
    IF ino = ROOT_INO
    THEN [NoReply EXCEPT !.op = "getattr", !.ino = ino, !.kind = "attr",
                         !.attr = RootAttr]
    ELSE IF HasIno(es, ino)
    THEN GetattrEntry([NoReply EXCEPT !.op = "getattr", !.ino = ino],
                      EntryByIno(es, ino), dir, missing)
    ELSE [NoReply EXCEPT !.op = "getattr", !.ino = ino, !.kind = "error",
                         !.errno = "ENOENT"]

\* ReplyDirectory::add on a buffer with room for cap entries: the entry is added
\* unless the buffer is full
ReplyAdd(buf, cap, item) == IF Len(buf) >= cap THEN buf ELSE Append(buf, item)

\* the value ReplyDirectory::add returns: TRUE when the buffer is full and the
\* entry was not added
ReplyFull(buf, cap) == Len(buf) >= cap

DirItem(ino, off, kind, name) == [ino |-> ino, off |-> off, kind |-> kind, name |-> name]

\* the entry loop of readdir over es[i..], with the reply buffer so far
RECURSIVE ReaddirLoop(_, _, _, _, _, _)
ReaddirLoop(es, i, ent_idx, idx, buf, cap) ==
    IF i > Len(es) THEN buf
    ELSE IF ent_idx <= idx THEN ReaddirLoop(es, i + 1, ent_idx + 1, idx, buf, cap)
    ELSE IF ReplyFull(buf, cap) THEN buf
    ELSE ReaddirLoop(es, i + 1, ent_idx + 1, idx,
                     ReplyAdd(buf, cap, DirItem(es[i].ino, ent_idx, "RegularFile",
                                                es[i].name)),
                     cap)

\* Filesystem::readdir; the results of the two adds of "." and ".." are dropped
readdir(es, ino, offset, cap) ==
    LET r    == [NoReply EXCEPT !.op = "readdir", !.ino = ino, !.offset = offset,
                                !.cap = cap]
        dot  == ReplyAdd(<<>>, cap, DirItem(ROOT_INO, 1, "Directory", <<46>>))
        dots == ReplyAdd(dot, cap, DirItem(ROOT_INO, 2, "Directory", <<46, 46>>))
    IN  IF ino # ROOT_INO THEN [r EXCEPT !.kind = "error", !.errno = "ENOTDIR"]
        ELSE [r EXCEPT !.kind = "dir",
                       !.items = IF offset = 0
                                 THEN ReaddirLoop(es, 1, 3, 2, dots, cap)
                                 ELSE ReaddirLoop(es, 1, 3, offset, <<>>, cap)]

\* a read that answers a handle it does not know with the not-found code
MissingHandleAsNotFound == "ENOENT"

\* the error code of a read on a handle that is not in the table
MissingHandleErrno == "EBADF"

\* the size clamp of the Cd2352 branch of read
CdMaxLen(ent) ==
    IF ent.kind.has_track_frames
    THEN ent.kind.track_frames * PerSector(ent.kind.payload_kind)
    ELSE ent.iso_size

\* a reply that hands out whatever the hunk loop copied, failed or not
DvdReplyPartial(got, cache, bytes) == ReadData(got.data, cache, bytes)

\* reply.data(&buf) or reply.error(EIO) after the hunk loop returned got
DvdReply(got, cache, bytes) ==
    IF got.ok THEN ReadData(got.data, cache, bytes) ELSE ReadError("EIO", cache, bytes)

\* the Dvd2048 / Raw2048 branch of read on [start, end) of the archive opened.
\* end - start underflows when offset > iso_size: a panic in a build with
\* overflow checks; without them to_read wraps to more than isize::MAX and, once
\* the archive is open, vec![0u8; to_read] panics (capacity overflow)
ReadDvd(cache, bytes, opened, start, end, overflow_checks) ==
    IF end < start /\ overflow_checks THEN ReadPanic(cache, bytes)
    ELSE IF ~opened.ok THEN ReadError("EIO", cache, bytes)
    ELSE IF end < start THEN ReadPanic(cache, bytes)
    ELSE DvdReply(DvdLoop(opened.f, start, end - start, <<>>), cache, bytes)

\* the match on ent.kind, with the handle's fields copied out in h
ReadEntry(cache, bytes, a, ent, h, dir, missing, offset, size, overflow_checks) ==
    IF ent.kind.tag \in {"Dvd2048", "Raw2048"}
    THEN ReadDvd(cache, bytes, ChdOpen(dir, missing, h.chd_path), offset,
                 Min(offset + size, ent.iso_size), overflow_checks)
    ELSE read_iso_from_cd(cache, bytes, a, dir, missing, h.file_id, h.chd_path,
                          ent.kind.first_data_lba, ent.kind.payload_kind, offset, size,
                          CdMaxLen(ent))

\* Filesystem::read: [kind, errno, data, cache, bytes]
read(cache, bytes, a, es, hs, dir, missing, ino, fh, offset, size, overflow_checks) ==
    IF ~HasIno(es, ino) THEN ReadError("ENOENT", cache, bytes)
    ELSE IF size = 0 \/ offset < 0 THEN ReadData(<<>>, cache, bytes)
    ELSE IF fh \notin DOMAIN hs THEN ReadError(MissingHandleErrno, cache, bytes)
    ELSE ReadEntry(cache, bytes, a, EntryByIno(es, ino), hs[fh], dir, missing, offset,
                   size, overflow_checks)

(***************************************************************************)
(* Inputs of the callbacks                                                 *)
(***************************************************************************)
\* the inodes a callback is called with: every file inode and one past the last
InoInputs == {entries[i].ino : i \in DOMAIN entries} \cup {Len(entries) + FIRST_FILE_INO}

\* the names lookup is called with: every indexed name, one of them in another
\* case, and a name that is not indexed
NameInputs ==
    {entries[i].name : i \in DOMAIN entries}
    \cup {ToLower(entries[i].name) : i \in DOMAIN entries}
    \cup {<<110, 111, 110, 101>>}

ParentInputs == {ROOT_INO} \cup InoInputs

\* the <<offset, size>> pairs read is called with on inode ino: a negative offset,
\* size 0, ranges inside one sector, across a sector boundary and across several
\* sectors or hunks, and ranges that end at, reach over and start after the end
\* of the exposed file
RangeInputs(ino) ==
    {<<-1, 1>>, <<0, 0>>, <<0, 1>>, <<2040, 20>>, <<2040, 2100>>}
    \cup (IF HasIno(entries, ino)
          THEN LET n == EntryByIno(entries, ino).iso_size
               IN  {<<n - 1, 1>>, <<n - 1, 20>>, <<n, 1>>, <<n + 1, 1>>, <<n + 1, 0>>}
          ELSE {})

NoListing == [active |-> FALSE, done |-> FALSE, cap |-> 0, items |-> <<>>]

NoPin == [some |-> FALSE, ino |-> 0, fh |-> 0, offset |-> 0, size |-> 0,
          kind |-> "none", data |-> <<>>]

NoPart == [kind |-> "none", data |-> <<>>]

\* no descriptor parsed yet
NotParsed == [called |-> FALSE, out |-> NoTrack, nul_called |-> FALSE, nul_out |-> NoTrack]

NoSplit == [phase |-> 0, ino |-> 0, fh |-> 0, o |-> 0, n |-> 0, s |-> 0,
            whole |-> NoPart, first |-> NoPart, second |-> NoPart]

(***************************************************************************)
(* Initial states: FsState::new, before build_index                        *)
(***************************************************************************)
InitLines(dirs, settings, lines) ==
    /\ args \in {[cache_hunks |-> c[1], cache_bytes |-> c[2], cd_allow_form2 |-> af] :
                     c \in settings, af \in BOOLEAN}
    /\ source_dir \in dirs
    /\ gone = {}
    /\ mounted = FALSE
    /\ crashed = FALSE
    /\ entries = <<>>
    /\ handles = <<>>
    /\ next_fh = 1
    /\ frame_cache = <<>>
    /\ approx_cache_bytes = 0
    /\ reply = NoReply
    /\ listing = NoListing
    /\ pinned = NoPin
    /\ split = NoSplit
    /\ track_line \in lines
    /\ track_info = NotParsed

\* the file system over one of dirs under one of settings
InitOver(dirs, settings) == InitLines(dirs, settings, {<<>>})

ghosts == <<listing, pinned, split>>

fixed == <<args, source_dir, gone, track_line, track_info>>

(***************************************************************************)
(* Actions                                                                 *)
(***************************************************************************)
\* the process after build_index returned index: mounted, or gone with a panic
Mount(index) ==
    IF index.panic
    THEN crashed' = TRUE /\ UNCHANGED <<mounted, entries>>
    ELSE entries' = index.entries /\ mounted' = TRUE /\ UNCHANGED crashed

\* main: fs.build_index() and the mount, in a build with or without overflow
\* checks
BuildIndex ==
    /\ ~mounted /\ ~crashed
    /\ \E overflow_checks \in BOOLEAN :
           Mount(build_index(source_dir, args.cd_allow_form2, overflow_checks))
    /\ UNCHANGED <<fixed, handles, next_fh, frame_cache, approx_cache_bytes, reply,
                   ghosts>>

Serving == mounted /\ ~crashed

Lookup ==
    /\ Serving
    /\ \E parent \in ParentInputs, name \in NameInputs :
           reply' = lookup(entries, source_dir, gone, parent, name)
    /\ UNCHANGED <<fixed, mounted, crashed, entries, handles, next_fh, frame_cache,
                   approx_cache_bytes, ghosts>>

Getattr ==
    /\ Serving
    /\ \E ino \in {ROOT_INO} \cup InoInputs :
           reply' = getattr(entries, source_dir, gone, ino)
    /\ UNCHANGED <<fixed, mounted, crashed, entries, handles, next_fh, frame_cache,
                   approx_cache_bytes, ghosts>>

\* what the enumerating client holds after a readdir(ino, offset) with a buffer
\* for cap entries answered r: a call at offset 0 starts over, a call with the
\* same buffer at the offset of the last entry received continues, any other
\* call abandons the enumeration
ListingAfter(l, ino, offset, cap, r) ==
    IF r.kind # "dir" THEN l
    ELSE IF offset = 0
    THEN [active |-> TRUE, done |-> r.items = <<>>, cap |-> cap, items |-> r.items]
    ELSE IF /\ l.active
            /\ ~l.done
            /\ l.cap = cap
            /\ l.items # <<>>
            /\ offset = l.items[Len(l.items)].off
    THEN [active |-> TRUE, done |-> r.items = <<>>, cap |-> cap,
          items |-> l.items \o r.items]
    ELSE NoListing

Readdir ==
    /\ Serving
    /\ \E ino \in {ROOT_INO, FIRST_FILE_INO}, offset \in 0..(Len(entries) + 3),
          cap \in 1..MaxCap :
           /\ reply' = readdir(entries, ino, offset, cap)
           /\ listing' = ListingAfter(listing, ino, offset, cap, reply')
    /\ UNCHANGED <<fixed, mounted, crashed, entries, handles, next_fh, frame_cache,
                   approx_cache_bytes, pinned, split>>

\* a counter that is handed out but not advanced
AllocFhSame(fh) == fh

\* alloc_fh: the value of next_fh after the id fh was handed out
alloc_fh(fh) == fh + 1

\* Filesystem::open; the model stops issuing handles after MaxFh
Open ==
    /\ Serving
    /\ next_fh <= MaxFh
    /\ \E ino \in InoInputs :
           LET r == [NoReply EXCEPT !.op = "open", !.ino = ino]
           IN  IF ~HasIno(entries, ino)
               THEN /\ reply' = [r EXCEPT !.kind = "error", !.errno = "ENOENT"]
                    /\ UNCHANGED <<handles, next_fh>>
               ELSE IF ~FileExists(source_dir, gone, EntryByIno(entries, ino).chd_path)
               THEN /\ reply' = [r EXCEPT !.kind = "error", !.errno = "EIO"]
                    /\ UNCHANGED <<handles, next_fh>>
               ELSE /\ next_fh' = alloc_fh(next_fh)
                    /\ handles' =
                           [h \in DOMAIN handles \cup {next_fh} |->
                               IF h = next_fh
                               THEN [file_id |-> ino,
                                     chd_path |-> EntryByIno(entries, ino).chd_path]
                               ELSE handles[h]]
                    /\ reply' = [r EXCEPT !.kind = "opened", !.fh = next_fh]
    /\ UNCHANGED <<fixed, mounted, crashed, entries, frame_cache, approx_cache_bytes,
                   ghosts>>

\* Filesystem::release
Release ==
    /\ Serving
    /\ \E fh \in 1..MaxFh :
           /\ handles' = [h \in DOMAIN handles \ {fh} |-> handles[h]]
           /\ reply' = [NoReply EXCEPT !.op = "release", !.kind = "ok", !.fh = fh]
    /\ UNCHANGED <<fixed, mounted, crashed, entries, next_fh, frame_cache,
                   approx_cache_bytes, ghosts>>

\* the state after read returned r
ReadDone(r, ino, fh, offset, size) ==
    /\ reply' = [NoReply EXCEPT !.op = "read", !.kind = r.kind, !.errno = r.errno,
                                !.ino = ino, !.fh = fh, !.offset = offset,
                                !.size = size, !.data = r.data,
                                !.file_id = IF fh \in DOMAIN handles
                                            THEN handles[fh].file_id ELSE 0]
    /\ frame_cache' = r.cache
    /\ approx_cache_bytes' = r.bytes
    /\ crashed' = (r.kind = "panic")
    /\ UNCHANGED <<fixed, mounted, entries, handles, next_fh, listing>>

\* the read callback on the current state, in a build with or without overflow
\* checks
DoRead(ino, fh, offset, size) ==
    \E overflow_checks \in BOOLEAN :
        ReadDone(read(frame_cache, approx_cache_bytes, args, entries, handles,
                      source_dir, gone, ino, fh, offset, size, overflow_checks),
                 ino, fh, offset, size)

\* the model stops reading once the byte counter has counted MaxCounted frames
CounterInBound == approx_cache_bytes < MaxCounted * CD_FRAME_2352

\* the handle id was issued for this inode, or is not in the handle table
OwnOrUnknown(ino, fh) == fh \in DOMAIN handles => handles[fh].file_id = ino

\* Filesystem::read as the kernel calls it: on any inode, with a handle id that
\* open returned for that inode or one that is not (or no longer) in the table
Read ==
    /\ Serving
    /\ CounterInBound
    /\ \E ino \in InoInputs, fh \in 1..MaxFh :
           /\ OwnOrUnknown(ino, fh)
           /\ \E range \in RangeInputs(ino) : DoRead(ino, fh, range[1], range[2])
    /\ UNCHANGED <<pinned, split>>

\* the handle ids that open returned for inode ino and that are still open
HandlesOn(ino) == {fh \in DOMAIN handles : handles[fh].file_id = ino}

\* the inodes of the index
FileInos == {entries[i].ino : i \in DOMAIN entries}

\* what a callback's reply carries of a read: its kind and its bytes
PartOf(r) == [kind |-> r.kind, data |-> r.data]

\* the <<o, n, s>> triples of a split read on inode ino, o <= s <= o + n: a part
\* of length 0 on either side, a split on and off a sector boundary, and ranges
\* that end at, reach over and start at the end of the exposed file
SplitInputs(ino) ==
    LET n == EntryByIno(entries, ino).iso_size
    IN  {<<0, 20, 0>>, <<0, 20, 20>>, <<2040, 20, 2048>>, <<2040, 2100, 2050>>,
         <<n - 2, 2, n - 1>>, <<n - 1, 3, n>>, <<n - 1, 3, n + 1>>, <<n, 2, n + 1>>}

\* a client reads [o, o + n) in one call ...
SplitWhole ==
    /\ Serving
    /\ split.phase \in {0, 3}
    /\ \E ino \in FileInos :
       \E fh \in HandlesOn(ino), t \in SplitInputs(ino) :
           /\ DoRead(ino, fh, t[1], t[2])
           /\ split' = [NoSplit EXCEPT !.phase = 1, !.ino = ino, !.fh = fh, !.o = t[1],
                                       !.n = t[2], !.s = t[3], !.whole = PartOf(reply')]
    /\ UNCHANGED pinned

\* ... then [o, s) ...
SplitFirst ==
    /\ Serving
    /\ split.phase = 1
    /\ DoRead(split.ino, split.fh, split.o, split.s - split.o)
    /\ split' = [split EXCEPT !.phase = 2, !.first = PartOf(reply')]
    /\ UNCHANGED pinned

\* ... then [s, o + n), through the same handle
SplitSecond ==
    /\ Serving
    /\ split.phase = 2
    /\ DoRead(split.ino, split.fh, split.s, split.o + split.n - split.s)
    /\ split' = [split EXCEPT !.phase = 3, !.second = PartOf(reply')]
    /\ UNCHANGED pinned

\* the <<offset, size>> pairs of the reads that are compared with each other:
\* inside the first sector, across a sector boundary, and over the end
PinRanges(ino) ==
    {<<0, 1>>, <<2040, 20>>}
    \cup (IF HasIno(entries, ino)
          THEN {<<EntryByIno(entries, ino).iso_size - 1, 20>>}
          ELSE {})

\* Filesystem::read with any inode and any handle id, also one that open
\* returned for another inode
ReadAny ==
    /\ Serving
    /\ CounterInBound
    /\ \E ino \in FileInos, fh \in 1..MaxFh :
       \E range \in PinRanges(ino) : DoRead(ino, fh, range[1], range[2])
    /\ UNCHANGED <<pinned, split>>

\* a read through a handle on its own entry whose range and reply are kept, to
\* be compared with every later read of the same range
PinRead ==
    /\ Serving
    /\ CounterInBound
    /\ ~pinned.some
    /\ \E ino \in FileInos :
       \E fh \in HandlesOn(ino), range \in PinRanges(ino) :
           /\ DoRead(ino, fh, range[1], range[2])
           /\ pinned' = [some |-> TRUE, ino |-> ino, fh |-> fh, offset |-> range[1],
                         size |-> range[2], kind |-> reply'.kind, data |-> reply'.data]
    /\ UNCHANGED split

\* an indexed archive is removed from the source directory while mounted ...
RemoveArchive ==
    /\ Serving
    /\ \E i \in DOMAIN entries :
           /\ entries[i].chd_path \notin gone
           /\ gone' = gone \cup {entries[i].chd_path}
    /\ reply' = [NoReply EXCEPT !.op = "removed"]
    /\ UNCHANGED <<args, source_dir, mounted, crashed, entries, handles, next_fh,
                   frame_cache, approx_cache_bytes, ghosts, track_line, track_info>>

\* ... and put back
RestoreArchive ==
    /\ Serving
    /\ \E path \in gone : gone' = gone \ {path}
    /\ reply' = [NoReply EXCEPT !.op = "restored"]
    /\ UNCHANGED <<args, source_dir, mounted, crashed, entries, handles, next_fh,
                   frame_cache, approx_cache_bytes, ghosts, track_line, track_info>>

\* parse_track_line(&s) on the descriptor text
ParseTrackLine ==
    /\ ~track_info.called
    /\ track_info' = [track_info EXCEPT !.called = TRUE,
                                        !.out = parse_track_line(track_line)]
    /\ UNCHANGED <<args, source_dir, gone, track_line, mounted, crashed, entries,
                   handles, next_fh, frame_cache, approx_cache_bytes, reply, ghosts>>

\* parse_track_line(&s) on the same descriptor as the blob of a NUL-terminated
\* string: from_utf8_lossy keeps the NUL as the last character of s
ParseTerminatedLine ==
    /\ track_info.called
    /\ ~track_info.nul_called
    /\ track_info' = [track_info EXCEPT !.nul_called = TRUE,
                                        !.nul_out = parse_track_line(track_line \o <<0>>)]
    /\ UNCHANGED <<args, source_dir, gone, track_line, mounted, crashed, entries,
                   handles, next_fh, frame_cache, approx_cache_bytes, reply, ghosts>>

(***************************************************************************)
(* Specifications                                                          *)
(***************************************************************************)
\* source directories for the index: same-stem archives in both read_dir orders,
\* archives with a Mode 2 Form 2 first data track, a file that is not an archive,
\* an archive that does not open, and mixed directories
IndexDirs ==
    {<<F_dvd.name, F_dvd_upper.name>>, <<F_dvd_upper.name, F_dvd.name>>,
     <<F_xa.name, F_txt.name>>, <<F_mix.name, F_bad.name>>,
     <<F_cd.name, F_scan.name, F_raw.name>>, <<F_raw.name, F_cd.name, F_dvd.name>>,
     <<F_scan.name, F_xa.name, F_mix.name>>, <<F_raw.name, F_bad.name, F_cd.name>>}

InitIndex == InitOver(IndexDirs, {<<256, 268435456>>})

NextIndex == BuildIndex \/ Lookup \/ Getattr \/ Readdir

\* the index and the callbacks that only consult it
SpecIndex == InitIndex /\ [][NextIndex]_vars

\* source directories for reads: every backing kind, every payload kind
ReadDirs == {<<F_dvd.name, F_cd.name>>, <<F_raw.name, F_scan.name>>}

InitRead == InitOver(ReadDirs, {<<256, 268435456>>, <<1, 268435456>>})

NextRead == BuildIndex \/ Open \/ Release \/ Read

\* handles and reads
SpecRead == InitRead /\ [][NextRead]_vars

InitSplit == InitOver(ReadDirs, {<<256, 268435456>>})

NextSplit == BuildIndex \/ Open \/ SplitWhole \/ SplitFirst \/ SplitSecond

\* a client that reads a range whole and then in two parts
SpecSplit == InitSplit /\ [][NextSplit]_vars

\* two CD archives whose frame numbers coincide, and a DVD image next to a CD
PinDirs == {<<F_cd.name, F_scan.name>>, <<F_dvd.name, F_xa.name>>}

\* a cache that evicts by its entry cap, and one that evicts by its byte cap
InitPin == InitOver(PinDirs, {<<1, 268435456>>, <<256, 2352>>})

NextPin == BuildIndex \/ Open \/ Release \/ ReadAny \/ PinRead

\* reads interleaved with opens, releases and other reads, through any handle
SpecPin == InitPin /\ [][NextPin]_vars

\* archives with a hunk that does not decode
FailDirs == {<<F_worn.name, F_torn.name>>}

InitFail == InitOver(FailDirs, {<<256, 268435456>>})

NextFail == BuildIndex \/ Open \/ RemoveArchive \/ RestoreArchive \/ PinRead \/ Read

\* reads while archives come and go
SpecFail == InitFail /\ [][NextFail]_vars

\* a DVD image and a CD image
AttrDirs == {<<F_dvd.name, F_cd.name>>}

InitAttr == InitOver(AttrDirs, {<<256, 268435456>>})

NextAttr == BuildIndex \/ RemoveArchive \/ RestoreArchive \/ Lookup \/ Getattr

\* attributes while archives come and go
SpecAttr == InitAttr /\ [][NextAttr]_vars

\* two CD images
CacheDirs == {<<F_cd.name, F_scan.name>>}

\* (cache_hunks, cache_bytes): the default entry cap with no byte budget at all,
\* an entry cap of one under a byte budget below one frame and under one of two
\* frames, and an entry cap of two under the default byte budget
InitCache == InitOver(CacheDirs, {<<0, 0>>, <<1, 2351>>, <<1, 4704>>, <<2, 268435456>>})

NextCache == BuildIndex \/ Open \/ Read

\* frame fetches under small cache settings
SpecCache == InitCache /\ [][NextCache]_vars

\* one two-track disc
TocDirs == {<<f.name>> : f \in TocDiscs}

InitToc == InitOver(TocDirs, {<<256, 268435456>>})

NextToc == BuildIndex \/ Lookup \/ Getattr

\* classification of the two-track discs
SpecToc == InitToc /\ [][NextToc]_vars

InitParse == InitLines({<<>>}, {<<256, 268435456>>}, TrackLines)

NextParse == ParseTrackLine

\* the descriptor parser on the descriptors under test
SpecParse == InitParse /\ [][NextParse]_vars

\* the descriptors under test without the separator after their last token
BareLines == {Take(l, Len(l) - 1) : l \in TrackLines \ {<<>>}}

InitNul == InitLines({<<>>}, {<<256, 268435456>>}, BareLines)

NextNul == ParseTrackLine \/ ParseTerminatedLine

\* the descriptor parser on a descriptor and on its NUL-terminated form
SpecNul == InitNul /\ [][NextNul]_vars

(***************************************************************************)
(* What the replies are compared with                                      *)
(***************************************************************************)
\* byte p (from 0) of the logical byte stream of archive f
LogicalByte(f, p) == f.hunks[(p \div f.hunk_size) + 1][(p % f.hunk_size) + 1]

\* the last callback was a read on an indexed inode
IsRead == reply.op = "read" /\ HasIno(entries, reply.ino)

\* the entry that read was on
ReadEnt == EntryByIno(entries, reply.ino)

\* the read came with a handle id that open had returned for the same inode and
\* that was still in the handle table
ThroughOwnHandle == reply.file_id = reply.ino

\* the read came with a handle id that was not in the handle table
UnknownHandle == reply.file_id = 0

\* the sector layout of the specification: user bytes per frame and where they
\* start in the 2352-byte frame
UserBytes(payload_kind) ==
    CASE payload_kind = "Mode1_2048"      -> 2048
      [] payload_kind = "Mode2Form1_2048" -> 2048
      [] payload_kind = "Mode2Form2_2324" -> 2324

UserOffset(payload_kind) ==
    CASE payload_kind = "Mode1_2048"      -> 16
      [] payload_kind = "Mode2Form1_2048" -> 24
      [] payload_kind = "Mode2Form2_2324" -> 24

\* byte j (from 0) of the user payloads of the frames first_data_lba,
\* first_data_lba + 1, ... of entry ent, one after the other
PayloadStreamByte(ent, j) ==
    LogicalByte(Disk(ent.chd_path),
                (ent.kind.first_data_lba + (j \div UserBytes(ent.kind.payload_kind)))
                    * CD_FRAME_2352
                + UserOffset(ent.kind.payload_kind)
                + (j % UserBytes(ent.kind.payload_kind)))

\* one sequential pass over entry ent: the read of [0, iso_size) through a handle
\* of its own, starting from an empty cache
SequentialPass(ent) ==
    read(<<>>, 0, args, entries, <<[file_id |-> ent.ino, chd_path |-> ent.chd_path]>>,
         source_dir, gone, ent.ino, 1, 0, ent.iso_size, TRUE).data

\* the tracks of archive f in track-number order, audio tracks left out
IsDataTrack(t) == t.kind # "Audio"

DataTracks(f) == SelectSeq(SortTracks(CollectTracks(f.metadata)), IsDataTrack)

\* a 2352-byte-unit archive whose first data track is Mode 2 Form 2
Form2First(f) ==
    /\ ~f.corrupt
    /\ f.unit_bytes = CD_FRAME_2352
    /\ DataTracks(f) # <<>>
    /\ DataTracks(f)[1].kind = "Mode2Form2"

\* what a complete enumeration of the root holds
ExpectedListing ==
    <<DirItem(ROOT_INO, 1, "Directory", <<46>>),
      DirItem(ROOT_INO, 2, "Directory", <<46, 46>>)>>
    \o [i \in DOMAIN entries |->
           DirItem(entries[i].ino, i + 2, "RegularFile", entries[i].name)]

(***************************************************************************)
(* The claims                                                              *)
(***************************************************************************)
\* C1: a read of at least one byte at or after the end of the exposed file,
\* through an open handle on the entry, replies with an empty buffer and does
\* not crash, for every backing kind. Refuted by SpecRead: on a Dvd2048 or
\* Raw2048 entry an offset greater than iso_size makes end - start underflow.
C1_ReadPastEndIsEmpty ==
    (IsRead /\ ThroughOwnHandle /\ reply.size >= 1 /\ reply.offset >= ReadEnt.iso_size)
        => (reply.kind = "data" /\ reply.data = <<>> /\ ~crashed)

\* C2: with cd-allow-form2 off, an archive whose first data track is Mode 2
\* Form 2 has no index entry. Refuted by SpecIndex: the track is passed over and
\* a later track, or the frame scan, gives the archive an .iso entry.
C2_Form2FirstIsHidden ==
    (mounted /\ ~args.cd_allow_form2)
        => \A i \in DOMAIN source_dir :
               (IsChdFile(source_dir[i]) /\ Form2First(Disk(source_dir[i])))
                   => ~\E j \in DOMAIN entries : entries[j].chd_path = source_dir[i]

\* C3: on a Dvd2048 or Raw2048 entry a read of [o, o + n), o >= 0, n >= 1,
\* o + n <= iso_size, through an open handle on the entry returns exactly n bytes,
\* the bytes [o, o + n) of the archive's logical byte stream.
C3_DvdReadIsExact ==
    (/\ IsRead
     /\ ThroughOwnHandle
     /\ ReadEnt.kind.tag \in {"Dvd2048", "Raw2048"}
     /\ reply.offset >= 0
     /\ reply.size >= 1
     /\ reply.offset + reply.size <= ReadEnt.iso_size)
        => /\ reply.kind = "data"
           /\ Len(reply.data) = reply.size
           /\ \A i \in 1..reply.size :
                  reply.data[i] = LogicalByte(Disk(ReadEnt.chd_path),
                                              reply.offset + i - 1)

\* C3 happens: such a read that starts inside a hunk and ends in a later one
C3_MidHunkAcrossHunks ==
    /\ IsRead
    /\ ThroughOwnHandle
    /\ ReadEnt.kind.tag \in {"Dvd2048", "Raw2048"}
    /\ reply.kind = "data"
    /\ reply.size >= 1
    /\ reply.offset + reply.size <= ReadEnt.iso_size
    /\ Len(reply.data) = reply.size
    /\ reply.offset % Disk(ReadEnt.chd_path).hunk_size # 0
    /\ (reply.offset + reply.size - 1) \div Disk(ReadEnt.chd_path).hunk_size
           > reply.offset \div Disk(ReadEnt.chd_path).hunk_size

\* C4: a successful read(offset, size) on a Cd2352 entry returns exactly
\* min(size, max(0, max_len - offset)) bytes, the bytes from offset on of the
\* user payloads of the frames first_data_lba, first_data_lba + 1, ...
C4_CdReadIsExactPayload ==
    (/\ IsRead
     /\ reply.file_id \in {0, reply.ino}
     /\ ReadEnt.kind.tag = "Cd2352"
     /\ reply.kind = "data"
     /\ reply.offset >= 0)
        => /\ Len(reply.data) = Min(reply.size, Max(0, CdMaxLen(ReadEnt) - reply.offset))
           /\ \A i \in 1..Len(reply.data) :
                  reply.data[i] = PayloadStreamByte(ReadEnt, reply.offset + i - 1)

\* C4 happens: a read of a Mode 2 entry that runs from one sector into the next,
\* with frames in the cache
C4_Mode2AcrossSectors ==
    /\ IsRead
    /\ ThroughOwnHandle
    /\ ReadEnt.kind.tag = "Cd2352"
    /\ ReadEnt.kind.payload_kind # "Mode1_2048"
    /\ reply.kind = "data"
    /\ reply.offset >= 0
    /\ (reply.offset % UserBytes(ReadEnt.kind.payload_kind)) + Len(reply.data)
           > UserBytes(ReadEnt.kind.payload_kind)
    /\ Len(frame_cache) >= 1

\* C5: reads are split-invariant on every entry kind: for o >= 0 and
\* o <= s <= o + n, read(o, n) equals read(o, s - o) followed by
\* read(s, o + n - s), also when a part is empty or the range passes the end of
\* the exposed file. Refuted by SpecSplit: on a Dvd2048 or Raw2048 entry a part
\* that starts after iso_size panics (the fault of C1).
C5_SplitInvariance ==
    /\ split.whole.kind \in {"none", "data"}
    /\ split.first.kind \in {"none", "data"}
    /\ split.second.kind \in {"none", "data"}
    /\ split.phase = 3 => split.whole.data = split.first.data \o split.second.data

\* C6: the bytes of a read depend only on (entry, offset, size): whatever reads,
\* opens and releases on any entries and handles came before, and whatever the
\* cache holds or evicted, a read through a handle on its own entry returns the
\* bytes of that range in one sequential pass over the file, and the same reply
\* as the earlier read of the same range.
C6_ReadDependsOnRangeOnly ==
    (IsRead /\ ThroughOwnHandle)
        => /\ (reply.kind = "data" /\ reply.offset >= 0)
                  => reply.data = SubSeq(SequentialPass(ReadEnt), reply.offset + 1,
                                         Min(reply.offset + reply.size,
                                             ReadEnt.iso_size))
           /\ (/\ pinned.some
               /\ pinned.ino = reply.ino
               /\ pinned.offset = reply.offset
               /\ pinned.size = reply.size)
                  => (reply.kind = pinned.kind /\ reply.data = pinned.data)

\* C6 happens: a range of a CD entry is read again after its frame was evicted
\* by the reads in between (with room for one frame, three frames were decoded)
C6_RereadAfterEviction ==
    /\ IsRead
    /\ ThroughOwnHandle
    /\ ReadEnt.kind.tag = "Cd2352"
    /\ reply.kind = "data"
    /\ reply.data # <<>>
    /\ pinned.some
    /\ pinned.ino = reply.ino
    /\ pinned.offset = reply.offset
    /\ pinned.size = reply.size
    /\ args.cache_hunks = 1
    /\ approx_cache_bytes >= 3 * CD_FRAME_2352

\* C7: lookup under a parent inode other than 1 replies with an error and never
\* with an entry. Refuted by SpecIndex: lookup does not look at the parent.
C7_LookupOnlyUnderRoot ==
    (reply.op = "lookup" /\ reply.parent # ROOT_INO) => reply.kind = "error"

\* C8 as stated: every read on an indexed inode with a handle id that is not in
\* the handle table is answered with EBADF, also for size 0 and negative
\* offsets. Refuted by SpecRead: those two cases are answered with an empty
\* buffer before the handle is looked up.
C8_UnknownHandleAlwaysEbadf ==
    (IsRead /\ UnknownHandle) => (reply.kind = "error" /\ reply.errno = "EBADF")

\* C8, amended: a read of at least one byte at a non-negative offset on an
\* indexed inode, with a handle id that is not in the handle table (never issued,
\* or released), is answered with EBADF.
C8_UnknownHandleEbadf ==
    (IsRead /\ UnknownHandle /\ reply.offset >= 0 /\ reply.size >= 1)
        => (reply.kind = "error" /\ reply.errno = "EBADF")

\* C8 happens: a read on a handle id that open issued and release removed
C8_ReadAfterRelease ==
    /\ IsRead
    /\ UnknownHandle
    /\ reply.fh < next_fh
    /\ reply.fh \notin DOMAIN handles
    /\ reply.offset >= 0
    /\ reply.size >= 1
    /\ reply.kind = "error"
    /\ reply.errno = "EBADF"

\* C9: for every buffer capacity of at least one entry, an enumeration that
\* starts at offset 0 and resumes at the offset of the last entry received, until
\* a reply is empty, yields '.' at 1, '..' at 2 and every index entry once, in
\* index order, from 3 on. Refuted by SpecIndex: with room for one entry '..' is
\* dropped.
C9_EnumerationComplete ==
    (listing.active /\ listing.done) => listing.items = ExpectedListing

\* C10: after build_index no two index entries have the same name. Refuted by
\* SpecIndex: two archives with the same stem get the same name.
C10_NamesUnique ==
    mounted => \A i, j \in DOMAIN entries :
                   i # j => entries[i].name # entries[j].name

\* C11: after build_index the entries are in ascending order of their lowercased
\* names and the entry at position i (from 0) has inode i + 2, so the inodes are
\* distinct and are exactly 2 .. n + 1; every entry stands for an archive of the
\* source directory that opened, so an archive that failed classification (or a
\* file that is no archive) takes no inode number.
C11_SortedDenseInodes ==
    mounted =>
        /\ \A i \in DOMAIN entries : entries[i].ino = (i - 1) + 2
        /\ \A i \in DOMAIN entries : \A j \in DOMAIN entries :
               i < j => ~StrLess(ToLower(entries[j].name), ToLower(entries[i].name))
        /\ {entries[i].ino : i \in DOMAIN entries} = 2..(Len(entries) + 1)
        /\ \A i \in DOMAIN entries :
               /\ entries[i].chd_path \in Range(source_dir)
               /\ IsChdFile(entries[i].chd_path)
               /\ ~Disk(entries[i].chd_path).corrupt
        /\ \A i \in DOMAIN entries : \A j \in DOMAIN entries :
               i # j => entries[i].chd_path # entries[j].chd_path

\* C11 happens: an index of two entries whose order is not the read_dir order,
\* built from a directory with an archive that failed classification
C11_ReorderedAroundFailure ==
    /\ mounted
    /\ Len(entries) = 2
    /\ \E i \in DOMAIN source_dir :
           IsChdFile(source_dir[i]) /\ Disk(source_dir[i]).corrupt
    /\ \E i \in DOMAIN source_dir : \E j \in DOMAIN source_dir :
           /\ i < j
           /\ source_dir[j] = entries[1].chd_path
           /\ source_dir[i] = entries[2].chd_path

\* C12: handle ids are issued in strictly increasing order. next_fh never
\* decreases and every id in the handle table is below it; a successful open
\* returns an id that is at least the old next_fh (so greater than every id
\* returned before) and below the new one, adds exactly that id to the table for
\* the inode opened and leaves every other handle as it was; a release removes
\* only its own id; a read through an id that is in the table is never answered
\* with EBADF and leaves the table alone.
C12_HandleIdsIncrease ==
    [][/\ next_fh' >= next_fh
       /\ \A h \in DOMAIN handles' : h < next_fh'
       /\ (reply'.op = "open" /\ reply'.kind = "opened") =>
              /\ reply'.fh >= next_fh
              /\ reply'.fh < next_fh'
              /\ reply'.fh \notin DOMAIN handles
              /\ DOMAIN handles' = DOMAIN handles \cup {reply'.fh}
              /\ \A h \in DOMAIN handles : handles'[h] = handles[h]
              /\ handles'[reply'.fh].file_id = reply'.ino
       /\ (reply'.op = "release") =>
              /\ DOMAIN handles' = DOMAIN handles \ {reply'.fh}
              /\ \A h \in DOMAIN handles' : handles'[h] = handles[h]
       /\ (reply'.op = "read" /\ reply'.fh \in DOMAIN handles) =>
              /\ reply'.errno # "EBADF"
              /\ handles' = handles
      ]_vars

\* C12 happens: the first handle was released, the second one, issued while the
\* first was open on the same entry or later, still reads its entry
C12_ReadAfterOtherRelease ==
    /\ IsRead
    /\ ThroughOwnHandle
    /\ reply.kind = "data"
    /\ reply.data # <<>>
    /\ reply.fh > 1
    /\ reply.fh \in DOMAIN handles
    /\ 1 \notin DOMAIN handles
    /\ next_fh > reply.fh

\* the archive of entry ent can be opened now
Openable(ent) ==
    FileExists(source_dir, gone, ent.chd_path) /\ ~Disk(ent.chd_path).corrupt

\* the hunks of a Dvd2048 / Raw2048 entry that hold bytes of [offset, offset + size)
\* below iso_size
NeededHunks(ent, offset, size) ==
    LET end == Min(offset + size, ent.iso_size)
        hs  == Disk(ent.chd_path).hunk_size
    IN  IF end <= offset THEN {} ELSE (offset \div hs)..((end - 1) \div hs)

\* the archive frames that hold the user bytes [offset, offset + size) of a
\* Cd2352 entry, below its size clamp
NeededFrames(ent, offset, size) ==
    LET end == Min(offset + size, CdMaxLen(ent))
        u   == UserBytes(ent.kind.payload_kind)
    IN  IF end <= offset THEN {}
        ELSE {ent.kind.first_data_lba + s : s \in (offset \div u)..((end - 1) \div u)}

\* the hunk of the archive of ent that holds frame k decodes
FrameDecodes(ent, k) ==
    HunkOk(Disk(ent.chd_path), k \div (Disk(ent.chd_path).hunk_size \div CD_FRAME_2352))

\* a read of [offset, offset + size) of ent in the current state runs into an
\* I/O failure: the archive does not open or a hunk of the range does not
\* decode, and (Cd2352) the frame concerned is not in the cache
ReadMustFail(ent, offset, size) ==
    IF ent.kind.tag \in {"Dvd2048", "Raw2048"}
    THEN /\ offset <= ent.iso_size
         /\ \/ ~Openable(ent)
            \/ \E h \in NeededHunks(ent, offset, size) : ~HunkOk(Disk(ent.chd_path), h)
    ELSE \E k \in NeededFrames(ent, offset, size) :
             /\ \A i \in DOMAIN frame_cache : frame_cache[i].key # <<ent.ino, k>>
             /\ ~Openable(ent) \/ ~FrameDecodes(ent, k)

\* no part of the archive that the read of [offset, offset + size) may touch fails
ReadCannotFail(ent, offset, size) ==
    /\ Openable(ent)
    /\ IF ent.kind.tag \in {"Dvd2048", "Raw2048"}
       THEN /\ offset <= ent.iso_size
            /\ \A h \in NeededHunks(ent, offset, size) : HunkOk(Disk(ent.chd_path), h)
       ELSE \A k \in NeededFrames(ent, offset, size) : FrameDecodes(ent, k)

\* C13: a read of at least one byte at a non-negative offset, through a handle
\* on its own entry, that runs into an I/O failure (the archive does not open, or
\* a hunk does not decode, at the first or a later frame of the range) is
\* answered with EIO and no data; every error reply of such a read is EIO without
\* data, does not crash and leaves the handle table and the index as they were;
\* and when nothing the range touches fails (any more) the read through the same
\* handle is answered with the bytes of the range.
C13_IoFailureIsEioOnly ==
    [][(/\ reply'.op = "read"
        /\ HasIno(entries, reply'.ino)
        /\ reply'.fh \in DOMAIN handles
        /\ handles[reply'.fh].file_id = reply'.ino
        /\ reply'.offset >= 0
        /\ reply'.size >= 1)
           => LET ent == EntryByIno(entries, reply'.ino)
              IN  /\ ReadMustFail(ent, reply'.offset, reply'.size)
                         => (reply'.kind = "error" /\ reply'.errno = "EIO")
                  /\ reply'.kind = "error"
                         => /\ reply'.errno = "EIO"
                            /\ reply'.data = <<>>
                            /\ ~crashed'
                            /\ handles' = handles
                            /\ entries' = entries
                  /\ ReadCannotFail(ent, reply'.offset, reply'.size)
                         => /\ reply'.kind = "data"
                            /\ Len(reply'.data) =
                                   Min(reply'.size, Max(0, ent.iso_size - reply'.offset))
      ]_vars

\* C13 happens: a read through a handle was answered with an error while its
\* archive was away, and the same read through the same handle, still open, is
\* served now that the archive is back
C13_RetryIsServed ==
    /\ IsRead
    /\ ThroughOwnHandle
    /\ pinned.some
    /\ pinned.kind = "error"
    /\ pinned.ino = reply.ino
    /\ pinned.fh = reply.fh
    /\ pinned.offset = reply.offset
    /\ pinned.size = reply.size
    /\ reply.kind = "data"
    /\ reply.data # <<>>
    /\ reply.fh \in DOMAIN handles

\* C14: getattr on an indexed file inode always replies with regular-file
\* attributes that carry the exposed size, and when the archive's filesystem
\* metadata cannot be read, with the attributes lookup falls back to (effective
\* uid/gid, current time). Refuted by SpecAttr: with the archive removed getattr
\* replies EIO.
C14_GetattrFallsBack ==
    (reply.op = "getattr" /\ HasIno(entries, reply.ino))
        => /\ reply.kind = "attr"
           /\ reply.attr.kind = "RegularFile"
           /\ reply.attr.size = EntryByIno(entries, reply.ino).iso_size
           /\ EntryByIno(entries, reply.ino).chd_path \in gone
                  => reply.attr = default_file_attr(EntryByIno(entries, reply.ino))

\* the sum of the lengths of the frames held in a cache
RECURSIVE HeldBytes(_)
HeldBytes(cache) ==
    IF cache = <<>> THEN 0 ELSE Len(cache[1].val) + HeldBytes(Tail(cache))

\* C15: after any sequence of frame fetches, for every cache_bytes (also below
\* one frame), approx_cache_bytes is at most cache_bytes + 2352.
C15_CounterWithinBudget ==
    approx_cache_bytes <= args.cache_bytes + 2352

\* C15 happens: with a byte budget below one frame, a read that fetched two
\* frames one after the other has left a frame in the cache
C15_TwoFetchesUnderTinyBudget ==
    /\ IsRead
    /\ ThroughOwnHandle
    /\ ReadEnt.kind.tag = "Cd2352"
    /\ args.cache_bytes < 2352
    /\ reply.kind = "data"
    /\ reply.offset >= 0
    /\ (reply.offset % UserBytes(ReadEnt.kind.payload_kind)) + Len(reply.data)
           > UserBytes(ReadEnt.kind.payload_kind)
    /\ frame_cache # <<>>
    /\ approx_cache_bytes > 0

\* C16 as stated: the cache never holds more frames than cache_hunks, for every
\* cache_hunks including 0. Refuted by SpecCache: cache_hunks = 0 gives the cache
\* room for 64 frames.
C16_CountWithinCacheHunks ==
    Len(frame_cache) <= args.cache_hunks

\* C16, amended: the cache never holds more frames than its capacity, which is
\* cache_hunks when that is at least 1 and 64 when it is 0.
C16_CountWithinCapacity ==
    Len(frame_cache) <= (IF args.cache_hunks = 0 THEN 64 ELSE args.cache_hunks)

\* C16 happens: the cache is at its capacity after more frames were fetched than
\* it has room for
C16_FullAfterCapEviction ==
    /\ args.cache_hunks >= 1
    /\ Len(frame_cache) = args.cache_hunks
    /\ approx_cache_bytes > HeldBytes(frame_cache)

\* C17: between frame fetches the byte counter is the sum of the lengths of the
\* frames held in the cache. Refuted by SpecCache: a frame evicted by the entry
\* cap of the container is not subtracted.
C17_CounterIsHeldBytes ==
    approx_cache_bytes = HeldBytes(frame_cache)

\* the two-track disc in the source directory
TocOnDisk == CHOOSE p \in TocParams : source_dir = <<TocName(p)>>

\* a TYPE of the two-track discs that is Mode1 or Mode2Form1
IsDataType(k) == k = 2 \/ k = 3

\* the number of the first track of kind Mode1 or Mode2Form1 of disc p, 0 when
\* it has none
FirstDataTrack(p) ==
    IF IsDataType(p.k1) THEN 1 ELSE IF IsDataType(p.k2) THEN 2 ELSE 0

\* pregap + frames + postgap over the tracks before track n of disc p, plus the
\* pregap of track n
LbaOfTrack(p, n) ==
    IF n = 1 THEN TocGaps1[p.g1].pregap
    ELSE TocGaps1[p.g1].pregap + TocGaps1[p.g1].frames + TocGaps1[p.g1].postgap
         + TocGaps2[p.g2].pregap

\* the FRAMES value of track n of disc p
FramesOfTrack(p, n) == IF n = 1 THEN TocGaps1[p.g1].frames ELSE TocGaps2[p.g2].frames

\* C18: a disc with a Mode1 or Mode2Form1 track is indexed by the first such
\* track in track-number order, whatever the order of its blobs: first_data_lba
\* is pregap + frames + postgap over the earlier tracks plus its own pregap,
\* track_frames is its FRAMES value and the size is track_frames x 2048.
\* Refuted by SpecToc: the POSTGAP value of a NUL-terminated descriptor does not
\* parse and counts as 0, with overflow checks the classification of a disc
\* whose first data track starts beyond the archive panics, and with
\* cd-allow-form2 an earlier Mode2Form2 track is returned instead.
C18_FirstDataTrackByNumber ==
    (source_dir \in TocDirs /\ FirstDataTrack(TocOnDisk) # 0) =>
        /\ ~crashed
        /\ mounted =>
               /\ Len(entries) = 1
               /\ entries[1].kind.tag = "Cd2352"
               /\ entries[1].kind.payload_kind \in {"Mode1_2048", "Mode2Form1_2048"}
               /\ entries[1].kind.first_data_lba
                      = LbaOfTrack(TocOnDisk, FirstDataTrack(TocOnDisk))
               /\ entries[1].kind.has_track_frames
               /\ entries[1].kind.track_frames
                      = FramesOfTrack(TocOnDisk, FirstDataTrack(TocOnDisk))
               /\ entries[1].iso_size
                      = FramesOfTrack(TocOnDisk, FirstDataTrack(TocOnDisk)) * 2048

\* the number of frames entry e exposes: track_frames when known, the frames
\* from first_data_lba to the end of the archive otherwise
ExposedFrames(e) ==
    IF e.kind.has_track_frames THEN e.kind.track_frames
    ELSE (Disk(e.chd_path).logical_bytes \div 2352) - e.kind.first_data_lba

\* C19: every Cd2352 entry of the index lies inside its archive:
\* first_data_lba x 2352 + N x 2352 <= logical_bytes. Refuted by SpecToc: FRAMES
\* and PREGAP are taken from the metadata as they are.
C19_CdEntryInsideArchive ==
    \A i \in DOMAIN entries :
        entries[i].kind.tag = "Cd2352" =>
            (entries[i].kind.first_data_lba * 2352) + (ExposedFrames(entries[i]) * 2352)
                <= Disk(entries[i].chd_path).logical_bytes

\* the tokens the descriptor in track_line was put together from
LineCase == CHOOSE c \in LineCases : LineTable[c] = track_line

\* the record parse_track_line returned carries the numbers of the tokens of c,
\* 0 for a number that is absent or malformed
NumbersAsWritten(c, out) ==
    /\ out.number = TrackTokens[c.t].val
    /\ out.frames = FramesTokens[c.f].val
    /\ out.pregap = PregapTokens[c.p].val
    /\ out.postgap = PostgapTokens[c.q].val

\* C20 as stated: parse_track_line returns no record exactly when the TRACK key
\* or the TYPE key is absent; with both keys it returns a record in which every
\* malformed number, TRACK included, is 0. Refuted by SpecParse: a TRACK value
\* that does not parse leaves no record.
C20_NoRecordIffKeyAbsent ==
    track_info.called =>
        /\ track_info.out.some = (TrackTokens[LineCase.t].key /\ TypeTokens[LineCase.y].key)
        /\ track_info.out.some => NumbersAsWritten(LineCase, track_info.out)

\* C20, amended: parse_track_line returns no record exactly when the line holds
\* no TYPE token or the value of its last TRACK token is missing or is not an
\* unsigned 32-bit number; in a record it returns, FRAMES, PREGAP and POSTGAP
\* are 0 when absent or malformed.
C20_NoRecordIffNoNumberOrType ==
    track_info.called =>
        /\ track_info.out.some = (TrackTokens[LineCase.t].ok /\ TypeTokens[LineCase.y].key)
        /\ track_info.out.some => NumbersAsWritten(LineCase, track_info.out)

\* C20 happens: a descriptor with a track number, a TYPE and a FRAMES value that
\* is no number was parsed into a record with frames 0
C20_MalformedFramesTakenAsZero ==
    /\ track_info.called
    /\ track_info.out.some
    /\ TrackTokens[LineCase.t].ok
    /\ FramesTokens[LineCase.f].key
    /\ ~FramesTokens[LineCase.f].ok
    /\ track_info.out.frames = 0

\* C21: parse_track_line returns for a track line followed by a NUL the record
\* it returns for the line itself. Refuted by SpecNul: the NUL becomes part of
\* the value of the last token.
C21_NulDoesNotChangeParse ==
    track_info.nul_called => track_info.nul_out = track_info.out

\* the eviction loop started on cache with the counter at bytes reaches a
\* subtraction of more than the counter holds
RECURSIVE EvictionSaturates(_, _, _)
EvictionSaturates(cache, bytes, cache_bytes) ==
    /\ bytes > cache_bytes
    /\ cache # <<>>
    /\ \/ bytes < Len(cache[1].val)
       \/ EvictionSaturates(Tail(cache), SaturatingSub(bytes, Len(cache[1].val)),
                            cache_bytes)

\* C22: the byte counter is never below the sum of the lengths of the frames
\* held, the eviction that the next inserted frame starts never subtracts more
\* than the counter holds, and the frames held never take more than
\* cache_bytes + 2352 bytes.
C22_CounterCoversHeldBytes ==
    /\ approx_cache_bytes >= HeldBytes(frame_cache)
    /\ ~EvictionSaturates(frame_cache, approx_cache_bytes + CD_FRAME_2352,
                          args.cache_bytes)
    /\ HeldBytes(frame_cache) <= args.cache_bytes + CD_FRAME_2352

\* C22 happens: a read left frames in a cache whose counter is above the bytes
\* held and whose next insertion has to evict
C22_EvictionDueWithDrift ==
    /\ reply.op = "read"
    /\ reply.kind = "data"
    /\ frame_cache # <<>>
    /\ approx_cache_bytes > HeldBytes(frame_cache)
    /\ approx_cache_bytes + CD_FRAME_2352 > args.cache_bytes

\* C23: for every index entry that readdir(1, ..) reported with inode i and name
\* n, lookup(1, n) replies with an entry whose attributes carry inode i and the
\* exposed size of that entry. Refuted by SpecIndex: two entries of the same
\* name are both listed and lookup finds the first of them.
C23_ListingAgreesWithLookup ==
    (reply.op = "lookup" /\ reply.parent = ROOT_INO) =>
        \A k \in DOMAIN listing.items :
            (listing.items[k].kind = "RegularFile" /\ listing.items[k].name = reply.name)
                => /\ reply.kind = "entry"
                   /\ reply.attr.ino = listing.items[k].ino
                   /\ reply.attr.size
                          = EntryByIno(entries, listing.items[k].ino).iso_size

\* the keys resident in cache
ResidentKeys(cache) == {cache[i].key : i \in DOMAIN cache}

\* the cache keys a read of [offset, offset + size) of the Cd2352 entry ent
\* through handle h asks get_cd_frame for
FrameKeys(ent, h, offset, size) ==
    {CacheKey(h.file_id, k) : k \in NeededFrames(ent, offset, size)}

\* the last of these keys
LastFrameKey(ent, h, offset, size) ==
    CacheKey(h.file_id, MaxOf(NeededFrames(ent, offset, size)))

\* of the keys that were resident in before and not among asked, the ones still
\* resident in after are the most recently used ones, in their order, and they
\* come before the keys asked for
OldestWentFirst(before, after, asked) ==
    /\ \A i, j \in DOMAIN before :
           (/\ i < j
            /\ before[i].key \notin asked
            /\ before[j].key \notin asked
            /\ before[i].key \in ResidentKeys(after))
               => /\ before[j].key \in ResidentKeys(after)
                  /\ LruIndex(after, before[i].key) < LruIndex(after, before[j].key)
    /\ \A i, j \in DOMAIN after :
           (after[i].key \in asked /\ after[j].key \notin asked) => j < i
    /\ \A i, j \in DOMAIN after : after[i].key = after[j].key => i = j
    /\ ResidentKeys(after) \subseteq (ResidentKeys(before) \cup asked)

\* C24: after a read of a Cd2352 entry that was served, the key of the last
\* frame it fetched (hit or miss) is resident and is the most recently used one,
\* and the keys that left the cache are the ones whose last access was the
\* oldest, for every cache_hunks and cache_bytes.
C24_FetchedFrameIsMostRecent ==
    [][(/\ reply'.op = "read"
        /\ reply'.kind = "data"
        /\ reply'.offset >= 0
        /\ reply'.size >= 1
        /\ HasIno(entries, reply'.ino)
        /\ reply'.fh \in DOMAIN handles
        /\ EntryByIno(entries, reply'.ino).kind.tag = "Cd2352"
        /\ NeededFrames(EntryByIno(entries, reply'.ino), reply'.offset, reply'.size) # {})
           => LET ent == EntryByIno(entries, reply'.ino)
                  h   == handles[reply'.fh]
              IN  /\ frame_cache' # <<>>
                  /\ frame_cache'[Len(frame_cache')].key
                         = LastFrameKey(ent, h, reply'.offset, reply'.size)
                  /\ OldestWentFirst(frame_cache, frame_cache',
                                     FrameKeys(ent, h, reply'.offset, reply'.size))
      ]_vars

\* C24 happens: with room for two frames, after an eviction by the count cap, a
\* read was served from a frame that is resident as the most recently used one
\* next to another frame
C24_MostRecentBesideOlder ==
    /\ reply.op = "read"
    /\ reply.kind = "data"
    /\ reply.offset >= 0
    /\ reply.size >= 1
    /\ HasIno(entries, reply.ino)
    /\ reply.fh \in DOMAIN handles
    /\ EntryByIno(entries, reply.ino).kind.tag = "Cd2352"
    /\ NeededFrames(EntryByIno(entries, reply.ino), reply.offset, reply.size) # {}
    /\ args.cache_hunks = 2
    /\ Len(frame_cache) = 2
    /\ approx_cache_bytes > HeldBytes(frame_cache)
    /\ frame_cache[2].key = LastFrameKey(EntryByIno(entries, reply.ino),
                                         handles[reply.fh], reply.offset, reply.size)

\* the entry the handle of the read was opened on
HandleEnt == EntryByIno(entries, reply.file_id)

\* C25: a read that returns data returns bytes of the single entry its handle
\* was opened on: the inode read is that entry's, and the data is the range
\* [offset, offset + size) of that entry's file. Refuted by SpecPin: the geometry
\* is taken from the entry of ino and the archive from the handle.
C25_ReadServesOneEntry ==
    (IsRead /\ reply.kind = "data" /\ reply.data # <<>>)
        => /\ reply.file_id = reply.ino
           /\ reply.data = SubSeq(SequentialPass(HandleEnt), reply.offset + 1,
                                  Min(reply.offset + reply.size, HandleEnt.iso_size))

====
